---------------------------- MODULE Spec2Model ----------------------------
(***************************************************************************)
(* A model of SFBAUv2IO, the duplex audio engine of sbooth/SFBAUv2IO.      *)
(*                                                                         *)
(* The engine (class SFBAUv2IO) is modelled from src/SFBAUv2IO/            *)
(* SFBAUv2IO.cpp (lines 1-630, the revision whose header is SFBAUv2IO.hpp  *)
(* lines 101-212) together with MixerInputRenderCallback, which the header *)
(* declares and whose only definition is src/unnamed/part_000:703-719.     *)
(*                                                                         *)
(* The ring buffer class comes from the imported header                    *)
(* SFBCARingBuffer.hpp; its operations are modelled from the documented    *)
(* contract of the ring buffer (spec.md sections 3 and 4.1), with the      *)
(* discontinuity policy "reset the bounds to the new span".                *)
(*                                                                         *)
(* Sample times are Float64 in the source and always hold whole numbers of *)
(* frames; they are integers here.  Samples are integers: 0 is a zero      *)
(* (silent) sample, Garbage is whatever a buffer held before a callback.   *)
(***************************************************************************)
EXTENDS Integers, Sequences, FiniteSets, TLC

(***************************************************************************)
(* Bounds of the model (device properties and horizons).                   *)
(***************************************************************************)
\* kAudioDevicePropertyBufferFrameSize of the input and of the output device
InputBufferFrameSize == 2
OutputBufferFrameSize == 2
\* kAudioDevicePropertySafetyOffset of the input and of the output device
InputSafetyOffset == 1
OutputSafetyOffset == 1
\* a direction started by Start reports a first sample time of 0 or MaxStartTime
MaxStartTime == 1
\* no callback is delivered at a device sample time of MaxTime or later
MaxTime == 6
\* number of times Start may start hardware
MaxRuns == 2
\* number of slices in the pool (16 in the source, SFBAUv2IO.cpp:27)
kScheduledAudioSliceCount == 2
\* number of PlayAt calls that get as far as decoding their file
MaxPlays == 4
\* the ring buffer harness: capacity, largest write/read time, largest frame count
RingTestCapacity == 4
MaxRingTime == 7
MaxRingFrames == 3
\* the correction harness: significand bits of the floating-point format (53
\* in Float64) and the largest magnitude of an input
FloatPrecision == 3
MaxFloat == 12

(***************************************************************************)
(* Program constants.                                                      *)
(***************************************************************************)
\* mFirstInputSampleTime(-1), mFirstOutputSampleTime(-1)
Unset == -1
\* mInputRingBuffer.Allocate(inputUnitOutputFormat, 20 * bufferFrameSize)
RingBufferMultiplier == 20
\* content of a buffer nobody has written yet
Garbage == -1

Abs(x) == IF x < 0 THEN -x ELSE x

Max(a, b) == IF a >= b THEN a ELSE b

\* the sample captured for absolute sample time t >= 0; never 0
Sample(t) == t + 1

\* n frames of silence, and n frames of an unwritten buffer
Zeros(n) == [i \in 1..n |-> 0]
Unwritten(n) == [i \in 1..n |-> Garbage]


(***************************************************************************)
(* The ring buffer (contract of spec.md 3 and 4.1).                        *)
(*   capacity            total frame capacity, fixed by Allocate           *)
(*   startTime, endTime  the published bounds [startTime, endTime)         *)
(*   written             at least one Write has been accepted              *)
(*   store               the circular store, slot (t mod capacity) holds   *)
(*                       the frame of absolute sample time t               *)
(***************************************************************************)
\* faulty variant of RingBufferAllocate: half the requested capacity
RingBufferAllocateHalf(capacityFrames) ==
    [capacity |-> capacityFrames \div 2, startTime |-> 0, endTime |-> 0,
     written |-> FALSE, store |-> [i \in 0..((capacityFrames \div 2) - 1) |-> 0]]

\* Allocate(format, capacityFrames)
RingBufferAllocate(capacityFrames) ==
    [capacity |-> capacityFrames, startTime |-> 0, endTime |-> 0,
     written |-> FALSE, store |-> [i \in 0..(capacityFrames - 1) |-> 0]]

RingBufferSlot(rb, t) == t % rb.capacity

\* faulty variant of RingBufferStore: the copy does not wrap, frames past
\* the last slot are dropped
RingBufferStoreNoWrap(rb, data, n, t) ==
    [s \in 0..(rb.capacity - 1) |->
        LET k == s - (t % rb.capacity)
        IN IF k >= 0 /\ k < n THEN data[k + 1] ELSE rb.store[s]]

\* the store after copying frames data[1..n] to absolute times t..t+n-1
RingBufferStore(rb, data, n, t) ==
    [s \in 0..(rb.capacity - 1) |->
        LET k == (s - t) % rb.capacity
        IN IF k < n THEN data[k + 1] ELSE rb.store[s]]

\* Write is rejected when the span cannot be stored, or when accepting it
\* would move startTime backwards
RingBufferWriteAccepted(rb, n, t) ==
    /\ n >= 1
    /\ n <= rb.capacity
    /\ (rb.written => t >= rb.startTime)

\* a span that extends endTime contiguously
RingBufferContiguous(rb, t) == rb.written /\ t = rb.endTime

\* a span that begins after endTime: frames were dropped between the two
RingBufferGap(rb, t) == rb.written /\ t > rb.endTime

\* faulty variant of RingBufferNewStart: a span written across a gap keeps
\* the old startTime instead of resetting the bounds
RingBufferNewStartKeptOnGap(rb, n, t) ==
    IF RingBufferContiguous(rb, t)
    THEN Max(rb.startTime, t + n - rb.capacity)
    ELSE IF RingBufferGap(rb, t) THEN rb.startTime ELSE t

\* faulty variant of RingBufferNewStart: an overrun does not advance startTime
RingBufferNewStartNoAdvance(rb, n, t) ==
    IF RingBufferContiguous(rb, t) THEN rb.startTime ELSE t

\* the bounds published by an accepted Write: a contiguous span extends
\* endTime and, past capacity, advances startTime (overrun: the oldest data
\* is discarded); any other span resets the bounds to the new span
RingBufferNewStart(rb, n, t) ==
    IF RingBufferContiguous(rb, t)
    THEN Max(rb.startTime, t + n - rb.capacity)
    ELSE t

RingBufferNewEnd(rb, n, t) == t + n

\* Write(source, frameCount, absoluteStartSampleTime) -> [ok, rb]
RingBufferWrite(rb, data, n, t) ==
    IF RingBufferWriteAccepted(rb, n, t)
    THEN [ok |-> TRUE,
          rb |-> [rb EXCEPT !.store = RingBufferStore(rb, data, n, t),
                            !.startTime = RingBufferNewStart(rb, n, t),
                            !.endTime = RingBufferNewEnd(rb, n, t),
                            !.written = TRUE]]
    ELSE [ok |-> FALSE, rb |-> rb]

\* faulty variant of RingBufferCovers: the end of the span is not compared
\* with endTime
RingBufferCoversStartOnly(rb, n, t) ==
    /\ rb.written
    /\ n >= 1
    /\ rb.startTime <= t
    /\ t < rb.endTime

\* the span [t, t+n) is fully covered by [startTime, endTime)
RingBufferCovers(rb, n, t) ==
    /\ rb.written
    /\ n >= 1
    /\ rb.startTime <= t
    /\ t + n <= rb.endTime

\* Read(destination, frameCount, absoluteStartSampleTime) -> [ok, data]:
\* data is the destination buffer after the call
RingBufferRead(rb, dest, n, t) ==
    IF RingBufferCovers(rb, n, t)
    THEN [ok |-> TRUE, data |-> [i \in 1..n |-> rb.store[RingBufferSlot(rb, t + i - 1)]]]
    ELSE [ok |-> FALSE, data |-> dest]

\* faulty variant of RingBufferGetTimeBounds: success is never guaranteed
RingBufferGetTimeBoundsUnreliable(rb, okIfEmpty) ==
    [ok |-> okIfEmpty, startTime |-> rb.startTime, endTime |-> rb.endTime]

\* GetTimeBounds() -> [ok, startTime, endTime]: always succeeds once a
\* Write has occurred; before that the contract leaves the outcome open,
\* and okIfEmpty is the outcome the caller gets
RingBufferGetTimeBounds(rb, okIfEmpty) ==
    [ok |-> (rb.written \/ okIfEmpty), startTime |-> rb.startTime, endTime |-> rb.endTime]


(***************************************************************************)
(* The engine's state.                                                     *)
(***************************************************************************)
VARIABLES
    inputRunning,            \* kAudioOutputUnitProperty_IsRunning of mInputUnit
    outputRunning,           \* kAudioOutputUnitProperty_IsRunning of mOutputUnit
    mFirstInputSampleTime,   \* std::atomic<double>, Unset until the first capture callback
    mFirstOutputSampleTime,  \* std::atomic<double>, Unset until the output side synchronizes
    mThroughLatency,         \* Float64
    mInputRingBuffer,        \* the ring buffer between the two callback threads
    inputClock,              \* device sample time of the next capture cycle
    outputClock,             \* device sample time of the next output cycle
    pcInput,                 \* position of the capture thread: "idle" or "write"
    inputTimeStamp,          \* inTimeStamp->mSampleTime of the capture callback in progress
    lastCapture,             \* what the most recent capture callback did
    lastOutput,              \* what the most recent output callback returned
    lastPull,                \* what the most recent mixer-pull callback did
    nStarts,                 \* number of times Start has started hardware
    nDeltaAdjust,            \* number of first-sample delta corrections since Initialize
    audioOut,                \* a mixer render reached the output since the first-sample times were last unset
    mScheduledAudioSlices,   \* the slice pool: slice index -> the slice's fields
    scheduledSlices,         \* player unit: the slices it holds (scheduled, not yet completed)
    playerStarted,           \* player unit: a start time stamp is set (current play time is not -1)
    freedBuffers,            \* the decoded buffers that have been freed
    nPlays,                  \* number of files decoded by PlayAt so far (the last buffer's id)
    play,                    \* control thread -> position and locals of its PlayAt call
    lastPlay,                \* how the most recent PlayAt call ended
    ringDest,                \* harness: the destination buffer of the most recent Read
    ringResult,              \* harness: the most recent ring buffer call and its result
    ringGap,                 \* harness: the bounds discarded by the most recent Write across a gap
    correction               \* harness: the first-sample correction computed by both revisions

poolVars == <<mScheduledAudioSlices, scheduledSlices, playerStarted, freedBuffers, nPlays,
              play, lastPlay>>
engineVars == <<inputRunning, outputRunning, mFirstInputSampleTime, mFirstOutputSampleTime,
                mThroughLatency, inputClock, outputClock, pcInput, inputTimeStamp,
                lastCapture, lastOutput, lastPull, nStarts, nDeltaAdjust, audioOut, poolVars>>
harnessVars == <<ringDest, ringResult, ringGap, correction>>
vars == <<engineVars, mInputRingBuffer, harnessVars>>

(***************************************************************************)
(* Latencies (device properties) and the synchronizer's arithmetic.        *)
(***************************************************************************)
\* an input latency that leaves the safety offset out
MinimumInputLatencyWithoutSafetyOffset == InputBufferFrameSize

MinimumInputLatency == InputSafetyOffset + InputBufferFrameSize
MinimumOutputLatency == OutputSafetyOffset + OutputBufferFrameSize
MinimumThroughLatency == MinimumInputLatency + MinimumOutputLatency

\* the test "mFirstInputSampleTime < 0" / "mFirstOutputSampleTime < 0"
FirstSampleTimeUnset(sampleTime) == sampleTime < 0

\* faulty variant of SyncThroughLatency: the delta is applied with the
\* opposite sign
SyncThroughLatencyReversed(latency, firstInput, firstOutput) == latency - (firstOutput - firstInput)

\* delta = mFirstOutputSampleTime - mFirstInputSampleTime; mThroughLatency += delta
SyncThroughLatency(latency, firstInput, firstOutput) == latency + (firstOutput - firstInput)

\* faulty variant of AdjustedTimeStamp: the latency is added
AdjustedTimeStampAdded(requested, latency) == requested + latency

\* adjustedTimeStamp = inTimeStamp->mSampleTime - mThroughLatency
AdjustedTimeStamp(requested, latency) == requested - latency

\* faulty variant of ResyncThroughLatency: the operands are exchanged
ResyncThroughLatencySwapped(requested, startTime) == startTime - requested

\* mThroughLatency = inTimeStamp->mSampleTime - startTime
ResyncThroughLatency(requested, startTime) == requested - startTime

\* what AudioUnitRender(mInputUnit) delivers for the cycle at sample time ts
RenderedInput(ts, n) == [i \in 1..n |-> Sample(ts + i - 1)]

\* mInputBufferList after AudioUnitRender(mInputUnit) returned result: the
\* cycle's samples, or whatever the buffer held when the render failed
InputBufferList(result, ts, n) ==
    IF result = "noErr" THEN RenderedInput(ts, n) ELSE Unwritten(n)

IsRunning == inputRunning \/ outputRunning

\* the OSStatus of AudioUnitRender: noErr or an error code
RenderResults == {"noErr", "error"}

\* result is the OSStatus a callback returned, threw tells that it left by
\* an exception instead
NoCapture == [valid |-> FALSE, ts |-> 0, frames |-> 0, setFirst |-> FALSE, wrote |-> FALSE,
              ok |-> FALSE, result |-> "noErr", threw |-> FALSE]
NoOutput == [kind |-> "none", ts |-> 0, sawFirstInput |-> Unset, sawFirstOutput |-> Unset,
             silenceFlag |-> FALSE, data |-> <<>>, pulled |-> FALSE,
             result |-> "noErr", threw |-> FALSE]
NoPull == [valid |-> FALSE, requested |-> 0, latencyBefore |-> 0, adjusted |-> 0, frames |-> 0,
           ok |-> FALSE, silenceFlag |-> FALSE, data |-> <<>>, boundsOk |-> FALSE,
           startTime |-> 0, throughLatency |-> 0]
NoRingResult == [op |-> "none", ok |-> FALSE, t |-> 0, n |-> 0]
NoRingGap == [valid |-> FALSE, startTime |-> 0, endTime |-> 0]
NoCorrection == [pc |-> "none", latency |-> 0, firstInput |-> 0, firstOutput |-> 0,
                 requested |-> 0, current |-> 0, older |-> 0,
                 adjustedCurrent |-> 0, adjustedOlder |-> 0]

(***************************************************************************)
(* The slice pool.  A slice holds the fields of ScheduledAudioSlice that   *)
(* PlayAt sets, and mAvailable.  A decoded buffer is named by the number   *)
(* of the PlayAt call that decoded it (1, 2, ...); 0 is nullptr.  The      *)
(* player unit (AUScheduledSoundPlayer) holds the slices handed to it      *)
(* until it calls their completion procedure.                              *)
(***************************************************************************)
SliceIndexes == 0..(kScheduledAudioSliceCount - 1)

\* the control threads that may call PlayAt, and the one that does
PlayThreads == {"control", "second"}
ControlThread == "control"

\* std::memset(this, 0, sizeof(ScheduledAudioSlice)): every field of the
\* base struct is zero; mAvailable is not part of it
ZeroedSlice(available) ==
    [mAvailable |-> available, mBufferList |-> 0, mNumberFrames |-> 0, mTimeStamp |-> 0,
     mCompletionProc |-> FALSE]

\* SFBScheduledAudioSlice(): memset 0, mAvailable = true
NewSlice == ZeroedSlice(TRUE)

\* abl.FrameLength() of the buffer decoded by the k-th PlayAt call
FrameLength(buffer) == buffer + 1

\* a PlayAt call that is not in progress
IdlePlay == [pc |-> "idle", timeStamp |-> 0, abl |-> 0, index |-> 0, sawAvailable |-> FALSE]

\* lastPlay before any PlayAt call; afterwards "threwEarly", "noSlices",
\* "rejected", "threwLate" or "scheduled"
NoPlay == "none"

PoolInit ==
    /\ mScheduledAudioSlices = [i \in SliceIndexes |-> NewSlice]
    /\ scheduledSlices = {}
    /\ playerStarted = FALSE
    /\ freedBuffers = {}
    /\ nPlays = 0
    /\ play = [th \in PlayThreads |-> IdlePlay]
    /\ lastPlay = NoPlay

\* a completion procedure that also releases the slice's buffer
CompletedSliceReleased(slice) == [slice EXCEPT !.mAvailable = TRUE, !.mBufferList = 0]

\* ScheduledAudioSliceCompletionProc(userData, slice): the slice's fields
\* after the call
CompletedSlice(slice) == [slice EXCEPT !.mAvailable = TRUE]

\* AudioUnitReset(mPlayerUnit): the player unit clears its schedule, calling
\* the completion procedure of every slice in it
PlayerResetSlices(slices, scheduled) ==
    [i \in SliceIndexes |-> IF i \in scheduled THEN CompletedSlice(slices[i]) ELSE slices[i]]

(***************************************************************************)
(* The state after construction: SFBAUv2IO() runs Initialize, which        *)
(* allocates the ring buffer (CreateInputAU) and sets mThroughLatency.     *)
(***************************************************************************)
EngineInit ==
    /\ inputRunning = FALSE
    /\ outputRunning = FALSE
    /\ mFirstInputSampleTime = Unset
    /\ mFirstOutputSampleTime = Unset
    /\ mThroughLatency = MinimumThroughLatency
    /\ inputClock = 0
    /\ outputClock = 0
    /\ pcInput = "idle"
    /\ inputTimeStamp = 0
    /\ lastCapture = NoCapture
    /\ lastOutput = NoOutput
    /\ lastPull = NoPull
    /\ nStarts = 0
    /\ nDeltaAdjust = 0
    /\ audioOut = FALSE
    /\ PoolInit

HarnessIdle ==
    /\ ringDest = <<>>
    /\ ringResult = NoRingResult
    /\ ringGap = NoRingGap
    /\ correction = NoCorrection

Init ==
    /\ EngineInit
    /\ mInputRingBuffer = RingBufferAllocate(RingBufferMultiplier * InputBufferFrameSize)
    /\ HarnessIdle


(***************************************************************************)
(* Control operations (non-real-time thread).  Every Core Audio call whose *)
(* result goes through ThrowIfCAAudioUnitError may fail: failAt names the  *)
(* call that fails, "none" when all succeed.                               *)
(***************************************************************************)
StartFailures == {"none", "input", "output"}
StopFailures == {"none", "input", "output", "reset"}

\* a Start() that, already running, begins a new run: the first-sample
\* times are forgotten
StartWhileRunningRestarts ==
    /\ IsRunning
    /\ play[ControlThread].pc = "idle"
    /\ mFirstInputSampleTime' = Unset
    /\ mFirstOutputSampleTime' = Unset
    /\ UNCHANGED <<inputRunning, outputRunning,
                   mThroughLatency, mInputRingBuffer, inputClock, outputClock, pcInput,
                   inputTimeStamp, lastCapture, lastOutput, lastPull, nStarts,
                   nDeltaAdjust, audioOut, harnessVars, poolVars>>

\* Start() while IsRunning(): returns at once
StartWhileRunning ==
    /\ IsRunning
    /\ play[ControlThread].pc = "idle"
    /\ UNCHANGED <<inputRunning, outputRunning, mFirstInputSampleTime, mFirstOutputSampleTime,
                   mThroughLatency, mInputRingBuffer, inputClock, outputClock, pcInput,
                   inputTimeStamp, lastCapture, lastOutput, lastPull, nStarts,
                   nDeltaAdjust, audioOut, harnessVars, poolVars>>

\* Start() while !IsRunning(): AudioOutputUnitStart(mInputUnit), then
\* AudioOutputUnitStart(mOutputUnit).  A started direction reports its first
\* cycle at device sample time inT (outT).
Start(inT, outT, failAt) ==
    /\ ~IsRunning
    /\ play[ControlThread].pc = "idle"
    /\ nStarts < MaxRuns
    /\ inputRunning' = (failAt # "input")
    /\ inputClock' = IF failAt # "input" THEN inT ELSE inputClock
    /\ outputRunning' = (failAt = "none")
    /\ outputClock' = IF failAt = "none" THEN outT ELSE outputClock
    /\ nStarts' = IF failAt # "input" THEN nStarts + 1 ELSE nStarts
    /\ UNCHANGED <<mFirstInputSampleTime, mFirstOutputSampleTime, mThroughLatency,
                   mInputRingBuffer, pcInput, inputTimeStamp, lastCapture, lastOutput,
                   lastPull, nDeltaAdjust, audioOut, harnessVars, poolVars>>

\* Stop() while !IsRunning(): returns at once
StopWhileStopped ==
    /\ ~IsRunning
    /\ play[ControlThread].pc = "idle"
    /\ UNCHANGED <<inputRunning, outputRunning, mFirstInputSampleTime, mFirstOutputSampleTime,
                   mThroughLatency, mInputRingBuffer, inputClock, outputClock, pcInput,
                   inputTimeStamp, lastCapture, lastOutput, lastPull, nStarts,
                   nDeltaAdjust, audioOut, harnessVars, poolVars>>

\* a Stop() that resets the first-sample times before it stops the units, so
\* also when a unit fails to stop
StopResetsFirst(failAt) ==
    /\ IsRunning
    /\ pcInput = "idle"
    /\ play[ControlThread].pc = "idle"
    /\ IF failAt = "input"
       THEN UNCHANGED <<inputRunning, inputClock, lastCapture>>
       ELSE /\ inputRunning' = FALSE
            /\ inputClock' = 0
            /\ lastCapture' = NoCapture
    /\ IF failAt \in {"input", "output"}
       THEN UNCHANGED <<outputRunning, outputClock, lastOutput, lastPull>>
       ELSE /\ outputRunning' = FALSE
            /\ outputClock' = 0
            /\ lastOutput' = NoOutput
            /\ lastPull' = NoPull
    /\ mFirstInputSampleTime' = Unset
    /\ mFirstOutputSampleTime' = Unset
    /\ IF failAt = "none"
       THEN /\ audioOut' = FALSE
            /\ mScheduledAudioSlices' = PlayerResetSlices(mScheduledAudioSlices, scheduledSlices)
            /\ scheduledSlices' = {}
            /\ playerStarted' = FALSE
       ELSE UNCHANGED <<audioOut, mScheduledAudioSlices, scheduledSlices, playerStarted>>
    /\ UNCHANGED <<mThroughLatency, mInputRingBuffer, pcInput, inputTimeStamp, nStarts,
                   nDeltaAdjust, harnessVars, freedBuffers, nPlays, play, lastPlay>>

\* a Stop() that returns without resetting the first-sample times
StopKeepsFirstSampleTimes(failAt) ==
    /\ IsRunning
    /\ pcInput = "idle"
    /\ play[ControlThread].pc = "idle"
    /\ IF failAt = "input"
       THEN UNCHANGED <<inputRunning, inputClock, lastCapture>>
       ELSE /\ inputRunning' = FALSE
            /\ inputClock' = 0
            /\ lastCapture' = NoCapture
    /\ IF failAt \in {"input", "output"}
       THEN UNCHANGED <<outputRunning, outputClock, lastOutput, lastPull>>
       ELSE /\ outputRunning' = FALSE
            /\ outputClock' = 0
            /\ lastOutput' = NoOutput
            /\ lastPull' = NoPull
    /\ IF failAt = "none"
       THEN /\ UNCHANGED <<mFirstInputSampleTime, mFirstOutputSampleTime>>
            /\ audioOut' = FALSE
            /\ mScheduledAudioSlices' = PlayerResetSlices(mScheduledAudioSlices, scheduledSlices)
            /\ scheduledSlices' = {}
            /\ playerStarted' = FALSE
       ELSE UNCHANGED <<mFirstInputSampleTime, mFirstOutputSampleTime, audioOut,
                        mScheduledAudioSlices, scheduledSlices, playerStarted>>
    /\ UNCHANGED <<mThroughLatency, mInputRingBuffer, pcInput, inputTimeStamp, nStarts,
                   nDeltaAdjust, harnessVars, freedBuffers, nPlays, play, lastPlay>>

\* Stop() while IsRunning(): AudioOutputUnitStop(mInputUnit),
\* AudioOutputUnitStop(mOutputUnit), AudioUnitReset(mPlayerUnit), then the
\* two first-sample times are set to -1.  A successful AudioUnitReset clears
\* the player unit's schedule (see PlayerResetSlices) and its start time.
\* AudioOutputUnitStop returns once the direction's callback in progress has
\* returned.  A halted direction has no device clock, and lastCapture,
\* lastOutput and lastPull describe callbacks delivered since their
\* direction was last started.
Stop(failAt) ==
    /\ IsRunning
    /\ pcInput = "idle"
    /\ play[ControlThread].pc = "idle"
    /\ IF failAt = "input"
       THEN UNCHANGED <<inputRunning, inputClock, lastCapture>>
       ELSE /\ inputRunning' = FALSE
            /\ inputClock' = 0
            /\ lastCapture' = NoCapture
    /\ IF failAt \in {"input", "output"}
       THEN UNCHANGED <<outputRunning, outputClock, lastOutput, lastPull>>
       ELSE /\ outputRunning' = FALSE
            /\ outputClock' = 0
            /\ lastOutput' = NoOutput
            /\ lastPull' = NoPull
    /\ IF failAt = "none"
       THEN /\ mFirstInputSampleTime' = Unset
            /\ mFirstOutputSampleTime' = Unset
            /\ audioOut' = FALSE
            /\ mScheduledAudioSlices' = PlayerResetSlices(mScheduledAudioSlices, scheduledSlices)
            /\ scheduledSlices' = {}
            /\ playerStarted' = FALSE
       ELSE UNCHANGED <<mFirstInputSampleTime, mFirstOutputSampleTime, audioOut,
                        mScheduledAudioSlices, scheduledSlices, playerStarted>>
    /\ UNCHANGED <<mThroughLatency, mInputRingBuffer, pcInput, inputTimeStamp, nStarts,
                   nDeltaAdjust, harnessVars, freedBuffers, nPlays, play, lastPlay>>

(***************************************************************************)
(* The capture callback (input thread).  Its two accesses to shared state, *)
(* the first-sample time and the ring buffer Write, are separate steps:    *)
(* the output thread runs concurrently.                                    *)
(***************************************************************************)
\* faulty variant of InputRenderCallbackBegin: a result other than noErr is
\* thrown as an exception, which leaves the callback before its Write
InputRenderCallbackBeginThrows(result) ==
    /\ inputRunning
    /\ pcInput = "idle"
    /\ inputClock < MaxTime
    /\ mFirstInputSampleTime' = IF FirstSampleTimeUnset(mFirstInputSampleTime)
                                 THEN inputClock
                                 ELSE mFirstInputSampleTime
    /\ lastCapture' = [valid |-> TRUE, ts |-> inputClock, frames |-> InputBufferFrameSize,
                        setFirst |-> FirstSampleTimeUnset(mFirstInputSampleTime),
                        wrote |-> FALSE, ok |-> FALSE, result |-> result,
                        threw |-> (result # "noErr")]
    /\ IF result = "noErr"
       THEN /\ inputTimeStamp' = inputClock
            /\ pcInput' = "write"
            /\ UNCHANGED inputClock
       ELSE /\ inputClock' = inputClock + InputBufferFrameSize
            /\ UNCHANGED <<inputTimeStamp, pcInput>>
    /\ UNCHANGED <<inputRunning, outputRunning, mFirstOutputSampleTime, mThroughLatency,
                   mInputRingBuffer, outputClock, lastOutput, lastPull,
                   nStarts, nDeltaAdjust, audioOut, harnessVars, poolVars>>

\* if(mFirstInputSampleTime < 0) mFirstInputSampleTime = inTimeStamp->mSampleTime;
\* mInputBufferList.Reset(); result = AudioUnitRender(mInputUnit, ...);
\* a result other than noErr is logged
InputRenderCallbackBegin(result) ==
    /\ inputRunning
    /\ pcInput = "idle"
    /\ inputClock < MaxTime
    /\ inputTimeStamp' = inputClock
    /\ mFirstInputSampleTime' = IF FirstSampleTimeUnset(mFirstInputSampleTime)
                                 THEN inputClock
                                 ELSE mFirstInputSampleTime
    /\ lastCapture' = [valid |-> TRUE, ts |-> inputClock, frames |-> InputBufferFrameSize,
                        setFirst |-> FirstSampleTimeUnset(mFirstInputSampleTime),
                        wrote |-> FALSE, ok |-> FALSE, result |-> result, threw |-> FALSE]
    /\ pcInput' = "write"
    /\ UNCHANGED <<inputRunning, outputRunning, mFirstOutputSampleTime, mThroughLatency,
                   mInputRingBuffer, inputClock, outputClock, lastOutput, lastPull,
                   nStarts, nDeltaAdjust, audioOut, harnessVars, poolVars>>

\* faulty variant of InputRenderCallbackWrite: the Write is tagged with the
\* sample time counted from the first capture callback
InputRenderCallbackWriteRelative ==
    /\ pcInput = "write"
    /\ LET w == RingBufferWrite(mInputRingBuffer,
                                InputBufferList(lastCapture.result, inputTimeStamp,
                                                InputBufferFrameSize),
                                InputBufferFrameSize, inputTimeStamp - mFirstInputSampleTime)
       IN /\ mInputRingBuffer' = w.rb
          /\ lastCapture' = [lastCapture EXCEPT !.wrote = TRUE, !.ok = w.ok]
    /\ inputClock' = inputTimeStamp + InputBufferFrameSize
    /\ inputTimeStamp' = 0
    /\ pcInput' = "idle"
    /\ UNCHANGED <<inputRunning, outputRunning, mFirstInputSampleTime, mFirstOutputSampleTime,
                   mThroughLatency, outputClock, lastOutput, lastPull,
                   nStarts, nDeltaAdjust, audioOut, harnessVars, poolVars>>

\* mInputRingBuffer.Write(mInputBufferList, inNumberFrames, inTimeStamp->mSampleTime);
\* a failed Write is logged and the callback returns result
InputRenderCallbackWrite ==
    /\ pcInput = "write"
    /\ LET w == RingBufferWrite(mInputRingBuffer,
                                InputBufferList(lastCapture.result, inputTimeStamp,
                                                InputBufferFrameSize),
                                InputBufferFrameSize, inputTimeStamp)
       IN /\ mInputRingBuffer' = w.rb
          /\ lastCapture' = [lastCapture EXCEPT !.wrote = TRUE, !.ok = w.ok]
    /\ inputClock' = inputTimeStamp + InputBufferFrameSize
    /\ inputTimeStamp' = 0
    /\ pcInput' = "idle"
    /\ UNCHANGED <<inputRunning, outputRunning, mFirstInputSampleTime, mFirstOutputSampleTime,
                   mThroughLatency, outputClock, lastOutput, lastPull,
                   nStarts, nDeltaAdjust, audioOut, harnessVars, poolVars>>


(***************************************************************************)
(* The mixer-pull callback (output thread, called by the mixer for its     *)
(* ring-buffer-fed input while AudioUnitRender(mMixerUnit) runs).          *)
(* The result records the callback's buffer and flags on return and the    *)
(* value it leaves in mThroughLatency.                                     *)
(***************************************************************************)
\* faulty variant of PullThroughLatency: the latency is re-derived whenever
\* GetTimeBounds succeeds, also after a Read that succeeded
PullThroughLatencyAlways(readOk, boundsOk, latency, requested, startTime) ==
    IF boundsOk THEN requested - startTime ELSE latency

\* the value the callback leaves in mThroughLatency: re-derived from the
\* bounds when the Read failed and GetTimeBounds succeeded
PullThroughLatency(readOk, boundsOk, latency, requested, startTime) ==
    IF ~readOk /\ boundsOk
    THEN ResyncThroughLatency(requested, startTime)
    ELSE latency

MixerInputRenderCallback(rb, latency, requested, n, okIfEmpty) ==
    LET adjustedTimeStamp == AdjustedTimeStamp(requested, latency)
        rd == RingBufferRead(rb, Unwritten(n), n, adjustedTimeStamp)
        tb == RingBufferGetTimeBounds(rb, okIfEmpty)
    IN  [valid |-> TRUE, requested |-> requested, latencyBefore |-> latency,
         adjusted |-> adjustedTimeStamp, frames |-> n, ok |-> rd.ok,
         silenceFlag |-> ~rd.ok,
         data |-> IF rd.ok THEN rd.data ELSE Zeros(n),
         boundsOk |-> ~rd.ok /\ tb.ok,
         startTime |-> IF ~rd.ok /\ tb.ok THEN tb.startTime ELSE 0,
         throughLatency |-> PullThroughLatency(rd.ok, tb.ok, latency, requested, tb.startTime)]

(***************************************************************************)
(* The output callback (output thread), with the mixer render it calls.    *)
(* AudioUnitRender(mMixerUnit) pulls the mixer's ring-buffer-fed input     *)
(* through MixerInputRenderCallback; the mixed output is represented by    *)
(* that input's frames.  okIfEmpty: see RingBufferGetTimeBounds.           *)
(* Each branch yields the callback's effect: the values it leaves in       *)
(* mFirstOutputSampleTime and mThroughLatency, its flags and buffer on     *)
(* return, and the mixer pull it made.                                     *)
(***************************************************************************)
\* faulty variant of OutputBranch: mFirstOutputSampleTime is not tested
OutputBranchInputOnly(firstInput, firstOutput) ==
    IF firstInput < 0 THEN "silence" ELSE "mixer"

\* the branch taken: "silence" (input not yet running), "sync" (the first
\* output sample time is recorded) or "mixer"
OutputBranch(firstInput, firstOutput) ==
    IF FirstSampleTimeUnset(firstInput) THEN "silence"
    ELSE IF FirstSampleTimeUnset(firstOutput) THEN "sync"
    ELSE "mixer"

\* *ioActionFlags = kAudioUnitRenderAction_OutputIsSilence; memset(..., 0, ...); return noErr
OutputSilence(kind, firstOutput, latency, n) ==
    [kind |-> kind, firstOutput |-> firstOutput, throughLatency |-> latency,
     silenceFlag |-> TRUE, data |-> Zeros(n), pulled |-> FALSE, pull |-> NoPull,
     result |-> "noErr"]

\* AudioUnitRender(mMixerUnit, ...)
OutputMixer(kind, firstOutput, latency, rb, ts, n, okIfEmpty) ==
    LET pull == MixerInputRenderCallback(rb, latency, ts, n, okIfEmpty)
    IN [kind |-> kind, firstOutput |-> firstOutput, throughLatency |-> pull.throughLatency,
        silenceFlag |-> FALSE, data |-> pull.data, pulled |-> TRUE, pull |-> pull,
        result |-> "noErr"]

\* AudioUnitRender(mMixerUnit, ...) returns an error, before the mixer has
\* pulled its ring-buffer-fed input or after it: the error is logged and
\* returned, ioData is as the mixer left it
OutputMixerFailed(kind, firstOutput, latency, rb, ts, n, okIfEmpty, pulled) ==
    LET pull == MixerInputRenderCallback(rb, latency, ts, n, okIfEmpty)
    IN [kind |-> kind, firstOutput |-> firstOutput,
        throughLatency |-> IF pulled THEN pull.throughLatency ELSE latency,
        silenceFlag |-> FALSE, data |-> Unwritten(n), pulled |-> pulled,
        pull |-> IF pulled THEN pull ELSE NoPull, result |-> "error"]

\* faulty variant of OutputSync: after the correction the callback goes on
\* to render the mixer instead of returning silence
OutputSyncThenMixer(firstInput, latency, rb, ts, n, okIfEmpty) ==
    OutputMixer("sync", ts, latency + (ts - firstInput), rb, ts, n, okIfEmpty)

\* faulty variant of OutputSync: the first output sample time is not
\* recorded
OutputSyncUnrecorded(firstInput, latency, rb, ts, n, okIfEmpty) ==
    OutputSilence("sync", Unset, SyncThroughLatency(latency, firstInput, ts), n)

\* the branch "mFirstOutputSampleTime < 0": record the time, correct the
\* latency once, emit silence and return
OutputSync(firstInput, latency, rb, ts, n, okIfEmpty) ==
    OutputSilence("sync", ts, SyncThroughLatency(latency, firstInput, ts), n)

\* the outcomes of AudioUnitRender(mMixerUnit)
MixerRenders == {"noErr", "errorBeforePull", "errorAfterPull"}

OutputRender(firstInput, firstOutput, latency, rb, ts, n, okIfEmpty, mixer) ==
    LET branch == OutputBranch(firstInput, firstOutput)
    IN CASE branch = "silence" -> OutputSilence("silence", firstOutput, latency, n)
         [] branch = "sync" -> OutputSync(firstInput, latency, rb, ts, n, okIfEmpty)
         [] branch = "mixer" /\ mixer = "noErr" ->
                OutputMixer("mixer", firstOutput, latency, rb, ts, n, okIfEmpty)
         [] branch = "mixer" /\ mixer # "noErr" ->
                OutputMixerFailed("mixer", firstOutput, latency, rb, ts, n, okIfEmpty,
                                  mixer = "errorAfterPull")

OutputRenderCallback(okIfEmpty, mixer) ==
    /\ outputRunning
    /\ outputClock < MaxTime
    /\ LET out == OutputRender(mFirstInputSampleTime, mFirstOutputSampleTime, mThroughLatency,
                               mInputRingBuffer, outputClock, OutputBufferFrameSize, okIfEmpty,
                               mixer)
       IN /\ mFirstOutputSampleTime' = out.firstOutput
          /\ mThroughLatency' = out.throughLatency
          /\ lastOutput' = [kind |-> out.kind, ts |-> outputClock,
                            sawFirstInput |-> mFirstInputSampleTime,
                            sawFirstOutput |-> mFirstOutputSampleTime,
                            silenceFlag |-> out.silenceFlag, data |-> out.data,
                            pulled |-> out.pulled, result |-> out.result, threw |-> FALSE]
          /\ lastPull' = IF out.pulled THEN out.pull ELSE lastPull
          /\ nDeltaAdjust' = IF out.kind = "sync" THEN nDeltaAdjust + 1 ELSE nDeltaAdjust
          /\ audioOut' = (audioOut \/ out.pulled)
    /\ outputClock' = outputClock + OutputBufferFrameSize
    /\ UNCHANGED <<inputRunning, outputRunning, mFirstInputSampleTime, mInputRingBuffer,
                   inputClock, pcInput, inputTimeStamp, lastCapture, nStarts, harnessVars, poolVars>>

(***************************************************************************)
(* The engine's specification.                                             *)
(***************************************************************************)
StartTimes == {0, MaxStartTime}

Next ==
    \/ StartWhileRunning
    \/ \E inT \in StartTimes, outT \in StartTimes, failAt \in StartFailures :
           Start(inT, outT, failAt)
    \/ StopWhileStopped
    \/ \E failAt \in StopFailures : Stop(failAt)
    \/ InputRenderCallbackBegin("noErr")
    \/ InputRenderCallbackWrite
    \/ \E okIfEmpty \in BOOLEAN : OutputRenderCallback(okIfEmpty, "noErr")

Spec == Init /\ [][Next]_vars

(***************************************************************************)
(* The engine with failing renders: in one run, AudioUnitRender(mInputUnit)*)
(* and AudioUnitRender(mMixerUnit) may return an error in any callback.    *)
(* Spec above is the engine whose renders succeed and whose control calls  *)
(* may fail.                                                               *)
(***************************************************************************)
RenderNext ==
    \/ \E inT \in StartTimes, outT \in StartTimes : Start(inT, outT, "none")
    \/ \E result \in RenderResults : InputRenderCallbackBegin(result)
    \/ InputRenderCallbackWrite
    \/ \E okIfEmpty \in BOOLEAN, mixer \in MixerRenders : OutputRenderCallback(okIfEmpty, mixer)

SpecRender == Init /\ [][RenderNext]_vars

(***************************************************************************)
(* The engine over several runs whose control calls all succeed: Start and *)
(* Stop never fail, the callbacks of the two devices interleave freely.    *)
(***************************************************************************)
RunsNext ==
    \/ \E inT \in StartTimes, outT \in StartTimes : Start(inT, outT, "none")
    \/ Stop("none")
    \/ InputRenderCallbackBegin("noErr")
    \/ InputRenderCallbackWrite
    \/ \E okIfEmpty \in BOOLEAN : OutputRenderCallback(okIfEmpty, "noErr")

SpecRuns == Init /\ [][RunsNext]_vars

(***************************************************************************)
(* The engine in one run under fair scheduling.  Each device invokes its   *)
(* callback at fixed periodic intervals, so a callback is always delivered *)
(* eventually (weak fairness on both threads) and neither device clock     *)
(* runs ahead of the other by more than the start offset and one cycle.    *)
(***************************************************************************)
ClockSkew == MaxStartTime + Max(InputBufferFrameSize, OutputBufferFrameSize)

\* the next capture (output) cycle is due
CaptureDue == inputClock + InputBufferFrameSize - outputClock <= ClockSkew
OutputDue == outputClock + OutputBufferFrameSize - inputClock <= ClockSkew

LiveStart == \E inT \in StartTimes, outT \in StartTimes : Start(inT, outT, "none")
LiveCaptureBegin == CaptureDue /\ InputRenderCallbackBegin("noErr")
LiveOutput == OutputDue /\ \E okIfEmpty \in BOOLEAN : OutputRenderCallback(okIfEmpty, "noErr")

LiveNext ==
    \/ LiveStart
    \/ LiveCaptureBegin
    \/ InputRenderCallbackWrite
    \/ LiveOutput

SpecLive ==
    /\ Init
    /\ [][LiveNext]_vars
    /\ WF_vars(LiveCaptureBegin)
    /\ WF_vars(InputRenderCallbackWrite)
    /\ WF_vars(LiveOutput)

(***************************************************************************)
(* The engine with its two callbacks in strict alternation: in every run   *)
(* the capture callback comes first, and then an output callback and a     *)
(* capture callback follow each other in turn, each for the same number of *)
(* frames at contiguous sample times.  Start and Stop succeed.  The number *)
(* of callbacks a run has delivered is read off the device clocks: the     *)
(* first capture callback of a run records its sample time, and so does    *)
(* the first output callback that follows it.                              *)
(***************************************************************************)
CapturesBegun ==
    IF FirstSampleTimeUnset(mFirstInputSampleTime)
    THEN 0
    ELSE (inputClock - mFirstInputSampleTime) \div InputBufferFrameSize
         + (IF pcInput = "write" THEN 1 ELSE 0)

OutputsDone ==
    IF FirstSampleTimeUnset(mFirstOutputSampleTime)
    THEN 0
    ELSE (outputClock - mFirstOutputSampleTime) \div OutputBufferFrameSize

AltStart == \E inT \in StartTimes, outT \in StartTimes : Start(inT, outT, "none")
AltCaptureBegin == CapturesBegun = OutputsDone /\ InputRenderCallbackBegin("noErr")
AltOutput ==
    /\ pcInput = "idle"
    /\ CapturesBegun = OutputsDone + 1
    /\ \E okIfEmpty \in BOOLEAN : OutputRenderCallback(okIfEmpty, "noErr")

AltNext ==
    \/ AltStart
    \/ Stop("none")
    \/ AltCaptureBegin
    \/ InputRenderCallbackWrite
    \/ AltOutput

SpecAlt ==
    /\ Init
    /\ [][AltNext]_vars
    /\ WF_vars(AltCaptureBegin)
    /\ WF_vars(InputRenderCallbackWrite)
    /\ WF_vars(AltOutput)


(***************************************************************************)
(* PlayAt (control thread), one step per access to the pool, and the slice *)
(* completion procedure (the player unit's render thread).                 *)
(***************************************************************************)
\* the sample time PlayAt is given: 0 (Play passes CATimeStamp{}) or later
PlayTimeStamps == {0, 1}
PlayEarlyFailures == {"format", "decode"}
PlayLateFailures == {"none", "playTime", "startTime"}

\* a scan that gives up one slot early
ScanDoneEarly(i) == i >= kScheduledAudioSliceCount - 1

\* the loop test "i < kScheduledAudioSliceCount" has failed
ScanDone(i) == i >= kScheduledAudioSliceCount

\* AudioUnitGetProperty(kAudioUnitProperty_StreamFormat) fails or
\* ReadFileContents throws: PlayAt ends before it touches the pool
PlayAtThrowsEarly(th, failAt) ==
    /\ play[th].pc = "idle"
    /\ lastPlay' = "threwEarly"
    /\ UNCHANGED <<inputRunning, outputRunning, mFirstInputSampleTime, mFirstOutputSampleTime,
                   mThroughLatency, mInputRingBuffer, inputClock, outputClock, pcInput,
                   inputTimeStamp, lastCapture, lastOutput, lastPull, nStarts, nDeltaAdjust,
                   audioOut, harnessVars, mScheduledAudioSlices, scheduledSlices,
                   playerStarted, freedBuffers, nPlays, play>>

\* auto abl = ReadFileContents(url, format); slice = nullptr; i = 0.
\* sawAvailable remembers whether a slice was available when the scan began.
PlayAtBegin(th, timeStamp) ==
    /\ play[th].pc = "idle"
    /\ nPlays < MaxPlays
    /\ nPlays' = nPlays + 1
    /\ play' = [play EXCEPT ![th] =
                    [pc |-> "scan", timeStamp |-> timeStamp, abl |-> nPlays + 1, index |-> 0,
                     sawAvailable |-> \E i \in SliceIndexes : mScheduledAudioSlices[i].mAvailable]]
    /\ UNCHANGED <<inputRunning, outputRunning, mFirstInputSampleTime, mFirstOutputSampleTime,
                   mThroughLatency, mInputRingBuffer, inputClock, outputClock, pcInput,
                   inputTimeStamp, lastCapture, lastOutput, lastPull, nStarts, nDeltaAdjust,
                   audioOut, harnessVars, mScheduledAudioSlices, scheduledSlices,
                   playerStarted, freedBuffers, lastPlay>>

\* a scan that, finding no available slot, takes the first one anyway
PlayAtScanTakesFirst(th) ==
    /\ play[th].pc = "scan"
    /\ LET i == play[th].index
       IN play' = [play EXCEPT ![th] =
                       IF i >= kScheduledAudioSliceCount
                       THEN [@ EXCEPT !.pc = "clear", !.index = 0, !.sawAvailable = FALSE]
                       ELSE IF mScheduledAudioSlices[i].mAvailable
                            THEN [@ EXCEPT !.pc = "clear", !.sawAvailable = FALSE]
                            ELSE [@ EXCEPT !.index = i + 1]]
    /\ UNCHANGED <<inputRunning, outputRunning, mFirstInputSampleTime, mFirstOutputSampleTime,
                   mThroughLatency, mInputRingBuffer, inputClock, outputClock, pcInput,
                   inputTimeStamp, lastCapture, lastOutput, lastPull, nStarts, nDeltaAdjust,
                   audioOut, harnessVars, mScheduledAudioSlices, scheduledSlices,
                   playerStarted, nPlays, freedBuffers, lastPlay>>

\* a scan that passes over slot 0 even when it is available
PlayAtScanSkipsFirst(th) ==
    /\ play[th].pc = "scan"
    /\ LET i == play[th].index
       IN IF ScanDone(i)
          THEN /\ play' = [play EXCEPT ![th] = IdlePlay]
               /\ freedBuffers' = freedBuffers \cup {play[th].abl}
               /\ lastPlay' = "noSlices"
          ELSE /\ play' = [play EXCEPT ![th] =
                               IF mScheduledAudioSlices[i].mAvailable /\ i > 0
                               THEN [@ EXCEPT !.pc = "clear", !.sawAvailable = FALSE]
                               ELSE [@ EXCEPT !.index = i + 1]]
               /\ UNCHANGED <<freedBuffers, lastPlay>>
    /\ UNCHANGED <<inputRunning, outputRunning, mFirstInputSampleTime, mFirstOutputSampleTime,
                   mThroughLatency, mInputRingBuffer, inputClock, outputClock, pcInput,
                   inputTimeStamp, lastCapture, lastOutput, lastPull, nStarts, nDeltaAdjust,
                   audioOut, harnessVars, mScheduledAudioSlices, scheduledSlices,
                   playerStarted, nPlays>>

\* one iteration of the scan, or its end: if(!slice) throw
\* std::runtime_error("No available slices"), which destroys abl
PlayAtScan(th) ==
    /\ play[th].pc = "scan"
    /\ LET i == play[th].index
       IN IF ScanDone(i)
          THEN /\ play' = [play EXCEPT ![th] = IdlePlay]
               /\ freedBuffers' = freedBuffers \cup {play[th].abl}
               /\ lastPlay' = "noSlices"
          ELSE /\ play' = [play EXCEPT ![th] =
                               IF mScheduledAudioSlices[i].mAvailable
                               THEN [@ EXCEPT !.pc = "clear", !.sawAvailable = FALSE]
                               ELSE [@ EXCEPT !.index = i + 1]]
               /\ UNCHANGED <<freedBuffers, lastPlay>>
    /\ UNCHANGED <<inputRunning, outputRunning, mFirstInputSampleTime, mFirstOutputSampleTime,
                   mThroughLatency, mInputRingBuffer, inputClock, outputClock, pcInput,
                   inputTimeStamp, lastCapture, lastOutput, lastPull, nStarts, nDeltaAdjust,
                   audioOut, harnessVars, mScheduledAudioSlices, scheduledSlices,
                   playerStarted, nPlays>>

\* slice->Clear(): std::free(mBufferList); memset(this, 0, sizeof(ScheduledAudioSlice))
PlayAtClear(th) ==
    /\ play[th].pc = "clear"
    /\ LET i == play[th].index
           slice == mScheduledAudioSlices[i]
       IN /\ freedBuffers' = IF slice.mBufferList # 0
                             THEN freedBuffers \cup {slice.mBufferList}
                             ELSE freedBuffers
          /\ mScheduledAudioSlices' =
                 [mScheduledAudioSlices EXCEPT ![i] = ZeroedSlice(slice.mAvailable)]
    /\ play' = [play EXCEPT ![th].pc = "fill"]
    /\ UNCHANGED <<inputRunning, outputRunning, mFirstInputSampleTime, mFirstOutputSampleTime,
                   mThroughLatency, mInputRingBuffer, inputClock, outputClock, pcInput,
                   inputTimeStamp, lastCapture, lastOutput, lastPull, nStarts, nDeltaAdjust,
                   audioOut, harnessVars, scheduledSlices, playerStarted, nPlays, lastPlay>>

\* the field writes without "mBufferList = abl.RelinquishABL()"
PlayAtFillWithoutBuffer(th) ==
    /\ play[th].pc = "fill"
    /\ mScheduledAudioSlices' =
           [mScheduledAudioSlices EXCEPT ![play[th].index] =
               [@ EXCEPT !.mTimeStamp = play[th].timeStamp,
                         !.mCompletionProc = TRUE,
                         !.mNumberFrames = FrameLength(play[th].abl)]]
    /\ play' = [play EXCEPT ![th].pc = "publish"]
    /\ UNCHANGED <<inputRunning, outputRunning, mFirstInputSampleTime, mFirstOutputSampleTime,
                   mThroughLatency, mInputRingBuffer, inputClock, outputClock, pcInput,
                   inputTimeStamp, lastCapture, lastOutput, lastPull, nStarts, nDeltaAdjust,
                   audioOut, harnessVars, scheduledSlices, playerStarted, freedBuffers,
                   nPlays, lastPlay>>

\* mTimeStamp, mCompletionProc, mCompletionProcUserData, mNumberFrames,
\* mBufferList = abl.RelinquishABL()
PlayAtFill(th) ==
    /\ play[th].pc = "fill"
    /\ mScheduledAudioSlices' =
           [mScheduledAudioSlices EXCEPT ![play[th].index] =
               [@ EXCEPT !.mTimeStamp = play[th].timeStamp,
                         !.mCompletionProc = TRUE,
                         !.mNumberFrames = FrameLength(play[th].abl),
                         !.mBufferList = play[th].abl]]
    /\ play' = [play EXCEPT ![th].pc = "publish", ![th].abl = 0]
    /\ UNCHANGED <<inputRunning, outputRunning, mFirstInputSampleTime, mFirstOutputSampleTime,
                   mThroughLatency, mInputRingBuffer, inputClock, outputClock, pcInput,
                   inputTimeStamp, lastCapture, lastOutput, lastPull, nStarts, nDeltaAdjust,
                   audioOut, harnessVars, scheduledSlices, playerStarted, freedBuffers,
                   nPlays, lastPlay>>

\* faulty variant of PlayAtPublish: the flag is left as it is, so the slice
\* is handed over while still marked available
PlayAtPublishKeepsAvailable(th) ==
    /\ play[th].pc = "publish"
    /\ play' = [play EXCEPT ![th].pc = "schedule"]
    /\ UNCHANGED <<inputRunning, outputRunning, mFirstInputSampleTime, mFirstOutputSampleTime,
                   mThroughLatency, mInputRingBuffer, inputClock, outputClock, pcInput,
                   inputTimeStamp, lastCapture, lastOutput, lastPull, nStarts, nDeltaAdjust,
                   audioOut, harnessVars, mScheduledAudioSlices, scheduledSlices, playerStarted,
                   freedBuffers, nPlays, lastPlay>>

\* slice->mAvailable = false
PlayAtPublish(th) ==
    /\ play[th].pc = "publish"
    /\ mScheduledAudioSlices' =
           [mScheduledAudioSlices EXCEPT ![play[th].index].mAvailable = FALSE]
    /\ play' = [play EXCEPT ![th].pc = "schedule"]
    /\ UNCHANGED <<inputRunning, outputRunning, mFirstInputSampleTime, mFirstOutputSampleTime,
                   mThroughLatency, mInputRingBuffer, inputClock, outputClock, pcInput,
                   inputTimeStamp, lastCapture, lastOutput, lastPull, nStarts, nDeltaAdjust,
                   audioOut, harnessVars, scheduledSlices, playerStarted, freedBuffers,
                   nPlays, lastPlay>>

\* AudioUnitSetProperty(kAudioUnitProperty_ScheduleAudioSlice): the slice is
\* handed to the player unit, or the unit rejects it and PlayAt throws
PlayAtSchedule(th, accepted) ==
    /\ play[th].pc = "schedule"
    /\ IF accepted
       THEN /\ scheduledSlices' = scheduledSlices \cup {play[th].index}
            /\ play' = [play EXCEPT ![th].pc = "start"]
            /\ UNCHANGED lastPlay
       ELSE /\ play' = [play EXCEPT ![th] = IdlePlay]
            /\ lastPlay' = "rejected"
            /\ UNCHANGED scheduledSlices
    /\ UNCHANGED <<inputRunning, outputRunning, mFirstInputSampleTime, mFirstOutputSampleTime,
                   mThroughLatency, mInputRingBuffer, inputClock, outputClock, pcInput,
                   inputTimeStamp, lastCapture, lastOutput, lastPull, nStarts, nDeltaAdjust,
                   audioOut, harnessVars, mScheduledAudioSlices, playerStarted, freedBuffers,
                   nPlays>>

\* AudioUnitGetProperty(kAudioUnitProperty_CurrentPlayTime); if the play time
\* is -1 (the unit has no start time), AudioUnitSetProperty(
\* kAudioUnitProperty_ScheduleStartTimeStamp).  failAt names the call that
\* fails, "none" when all succeed.
PlayAtStart(th, failAt) ==
    /\ play[th].pc = "start"
    /\ (failAt = "startTime") => ~playerStarted
    /\ playerStarted' = (playerStarted \/ failAt = "none")
    /\ lastPlay' = IF failAt = "none" THEN "scheduled" ELSE "threwLate"
    /\ play' = [play EXCEPT ![th] = IdlePlay]
    /\ UNCHANGED <<inputRunning, outputRunning, mFirstInputSampleTime, mFirstOutputSampleTime,
                   mThroughLatency, mInputRingBuffer, inputClock, outputClock, pcInput,
                   inputTimeStamp, lastCapture, lastOutput, lastPull, nStarts, nDeltaAdjust,
                   audioOut, harnessVars, mScheduledAudioSlices, scheduledSlices,
                   freedBuffers, nPlays>>

\* ScheduledAudioSliceCompletionProc(userData, slice), called by the player
\* unit on the render thread when it has finished with a slice of its
\* schedule; the unit renders while the output unit runs and a start time
\* is set
ScheduledAudioSliceCompletionProc(i) ==
    /\ i \in scheduledSlices
    /\ outputRunning
    /\ playerStarted
    /\ mScheduledAudioSlices' =
           [mScheduledAudioSlices EXCEPT ![i] = CompletedSlice(mScheduledAudioSlices[i])]
    /\ scheduledSlices' = scheduledSlices \ {i}
    /\ UNCHANGED <<inputRunning, outputRunning, mFirstInputSampleTime, mFirstOutputSampleTime,
                   mThroughLatency, mInputRingBuffer, inputClock, outputClock, pcInput,
                   inputTimeStamp, lastCapture, lastOutput, lastPull, nStarts, nDeltaAdjust,
                   audioOut, harnessVars, playerStarted, freedBuffers, nPlays, play, lastPlay>>

(***************************************************************************)
(* The slice pool's specification: the control thread calls Start, Stop    *)
(* and PlayAt, the player unit completes slices.  The hardware callbacks   *)
(* do not touch the pool and are left out.                                 *)
(***************************************************************************)
PoolNext ==
    \/ StartWhileRunning
    \/ \E failAt \in StartFailures : Start(0, 0, failAt)
    \/ StopWhileStopped
    \/ \E failAt \in StopFailures : Stop(failAt)
    \/ \E failAt \in PlayEarlyFailures : PlayAtThrowsEarly(ControlThread, failAt)
    \/ \E timeStamp \in PlayTimeStamps : PlayAtBegin(ControlThread, timeStamp)
    \/ PlayAtScan(ControlThread)
    \/ PlayAtClear(ControlThread)
    \/ PlayAtFill(ControlThread)
    \/ PlayAtPublish(ControlThread)
    \/ \E accepted \in BOOLEAN : PlayAtSchedule(ControlThread, accepted)
    \/ \E failAt \in PlayLateFailures : PlayAtStart(ControlThread, failAt)
    \/ \E i \in SliceIndexes : ScheduledAudioSliceCompletionProc(i)

SpecPool == Init /\ [][PoolNext]_vars

(***************************************************************************)
(* The slice pool with PlayAt called from two non-real-time threads at     *)
(* once.  PlayAt takes no lock: the steps of the two calls interleave      *)
(* freely, with each other and with completion callbacks.  Start and the   *)
(* player unit's calls succeed and the engine is not stopped.              *)
(***************************************************************************)
ConcurrentPlayNext ==
    \/ Start(0, 0, "none")
    \/ \E th \in PlayThreads, timeStamp \in PlayTimeStamps : PlayAtBegin(th, timeStamp)
    \/ \E th \in PlayThreads : PlayAtScan(th)
    \/ \E th \in PlayThreads : PlayAtClear(th)
    \/ \E th \in PlayThreads : PlayAtFill(th)
    \/ \E th \in PlayThreads : PlayAtPublish(th)
    \/ \E th \in PlayThreads : PlayAtSchedule(th, TRUE)
    \/ \E th \in PlayThreads : PlayAtStart(th, "none")
    \/ \E i \in SliceIndexes : ScheduledAudioSliceCompletionProc(i)

SpecConcurrentPlay == Init /\ [][ConcurrentPlayNext]_vars


(***************************************************************************)
(* The ring buffer on its own: a harness that applies Write, Read and      *)
(* GetTimeBounds to a buffer of RingTestCapacity frames, with spans drawn  *)
(* from 0..MaxRingTime and 1..MaxRingFrames.  The frame written for sample *)
(* time t is Sample(t).  A harness run is a sequence of Writes followed by *)
(* one Read or GetTimeBounds, whose result stays in ringDest, ringResult.  *)
(***************************************************************************)
RingTimes == 0..MaxRingTime
RingFrames == 1..MaxRingFrames

HarnessData(t, n) == [i \in 1..n |-> Sample(t + i - 1)]

HarnessWriting == ringResult.op \in {"none", "Write"}

RingHarnessWrite(t, n) ==
    /\ HarnessWriting
    /\ LET w == RingBufferWrite(mInputRingBuffer, HarnessData(t, n), n, t)
       IN /\ mInputRingBuffer' = w.rb
          /\ ringResult' = [op |-> "Write", ok |-> w.ok, t |-> t, n |-> n]
          /\ ringGap' = IF w.ok /\ RingBufferGap(mInputRingBuffer, t)
                        THEN [valid |-> TRUE, startTime |-> mInputRingBuffer.startTime,
                              endTime |-> mInputRingBuffer.endTime]
                        ELSE ringGap
    /\ ringDest' = <<>>
    /\ UNCHANGED <<engineVars, correction>>

RingHarnessRead(t, n) ==
    /\ HarnessWriting
    /\ LET r == RingBufferRead(mInputRingBuffer, Unwritten(n), n, t)
       IN /\ ringDest' = r.data
          /\ ringResult' = [op |-> "Read", ok |-> r.ok, t |-> t, n |-> n]
    /\ UNCHANGED <<engineVars, mInputRingBuffer, ringGap, correction>>

RingHarnessGetTimeBounds(okIfEmpty) ==
    /\ HarnessWriting
    /\ LET tb == RingBufferGetTimeBounds(mInputRingBuffer, okIfEmpty)
       IN ringResult' = [op |-> "GetTimeBounds", ok |-> tb.ok, t |-> tb.startTime, n |-> tb.endTime]
    /\ ringDest' = <<>>
    /\ UNCHANGED <<engineVars, mInputRingBuffer, ringGap, correction>>

RingInit ==
    /\ EngineInit
    /\ mInputRingBuffer = RingBufferAllocate(RingTestCapacity)
    /\ HarnessIdle

RingNext ==
    \/ \E t \in RingTimes, n \in RingFrames : RingHarnessWrite(t, n)
    \/ \E t \in RingTimes, n \in RingFrames : RingHarnessRead(t, n)
    \/ \E okIfEmpty \in BOOLEAN : RingHarnessGetTimeBounds(okIfEmpty)

SpecRing == RingInit /\ [][RingNext]_vars

(***************************************************************************)
(* Floating-point arithmetic.  mFirstInputSampleTime, mFirstOutputSampleTime *)
(* and mThroughLatency are Float64: every sum and difference is rounded to *)
(* the nearest representable value, ties to the even significand.  The     *)
(* format here has FloatPrecision significand bits and no exponent limit;  *)
(* values are whole numbers, as sample times are.                          *)
(***************************************************************************)
RECURSIVE Pow2(_)
Pow2(k) == IF k = 0 THEN 1 ELSE 2 * Pow2(k - 1)

\* the spacing of the representable values around x
RECURSIVE FloatUlp(_, _)
FloatUlp(x, u) == IF Abs(x) < Pow2(FloatPrecision) * u THEN u ELSE FloatUlp(x, 2 * u)

\* faulty variant of FloatRound: ties are rounded towards plus infinity
FloatRoundHalfUp(x) ==
    LET u == FloatUlp(x, 1)
        q == x \div u
        r == x - q * u
    IN IF 2 * r < u THEN q * u ELSE (q + 1) * u

\* round to nearest, ties to even
FloatRound(x) ==
    LET u == FloatUlp(x, 1)
        q == x \div u
        r == x - q * u
    IN IF 2 * r < u THEN q * u
       ELSE IF 2 * r > u THEN (q + 1) * u
       ELSE IF q % 2 = 0 THEN q * u ELSE (q + 1) * u

FloatAdd(a, b) == FloatRound(a + b)
FloatSub(a, b) == FloatRound(a - b)

\* the representable values of magnitude up to MaxFloat
FloatValues == {x \in (-MaxFloat)..MaxFloat : FloatRound(x) = x}

(***************************************************************************)
(* The one-time correction in its two revisions, and the read position of  *)
(* a later mixer pull.                                                     *)
(***************************************************************************)
\* SFBAUv2IO.cpp: delta = mFirstOutputSampleTime - mFirstInputSampleTime;
\* mThroughLatency += delta
CorrectionCurrent(latency, firstInput, firstOutput) ==
    FloatAdd(latency, FloatSub(firstOutput, firstInput))

\* the older revision: delta = mFirstInputTime - mFirstOutputTime;
\* mThroughLatency -= delta
CorrectionOlder(latency, firstInput, firstOutput) ==
    FloatSub(latency, FloatSub(firstInput, firstOutput))

\* adjustedTimeStamp = inTimeStamp->mSampleTime - mThroughLatency
FloatAdjustedTimeStamp(requested, latency) == FloatSub(requested, latency)

\* the harness: any latency and first-sample times, then the correction by
\* both revisions, then a mixer pull at any sample time
CorrectionApply ==
    /\ correction.pc = "inputs"
    /\ correction' = [correction EXCEPT
           !.pc = "corrected",
           !.current = CorrectionCurrent(correction.latency, correction.firstInput,
                                         correction.firstOutput),
           !.older = CorrectionOlder(correction.latency, correction.firstInput,
                                     correction.firstOutput)]
    /\ UNCHANGED <<engineVars, mInputRingBuffer, ringDest, ringResult, ringGap>>

CorrectionPull(requested) ==
    /\ correction.pc = "corrected"
    /\ correction' = [correction EXCEPT
           !.pc = "pulled",
           !.requested = requested,
           !.adjustedCurrent = FloatAdjustedTimeStamp(requested, correction.current),
           !.adjustedOlder = FloatAdjustedTimeStamp(requested, correction.older)]
    /\ UNCHANGED <<engineVars, mInputRingBuffer, ringDest, ringResult, ringGap>>

CorrectionInit ==
    /\ EngineInit
    /\ mInputRingBuffer = RingBufferAllocate(RingBufferMultiplier * InputBufferFrameSize)
    /\ ringDest = <<>>
    /\ ringResult = NoRingResult
    /\ ringGap = NoRingGap
    /\ \E latency \in FloatValues, firstInput \in FloatValues, firstOutput \in FloatValues :
           correction = [NoCorrection EXCEPT !.pc = "inputs", !.latency = latency,
                                             !.firstInput = firstInput,
                                             !.firstOutput = firstOutput]

CorrectionNext ==
    \/ CorrectionApply
    \/ \E requested \in {0, OutputBufferFrameSize, MaxFloat} : CorrectionPull(requested)

SpecCorrection == CorrectionInit /\ [][CorrectionNext]_vars


(***************************************************************************)
(* Properties of the engine (specification Spec).                          *)
(***************************************************************************)
\* a step in which an output callback runs to completion
OutputStep == outputRunning /\ outputRunning' /\ outputClock' # outputClock

\* a step in which a capture callback begins
CaptureBeginStep == pcInput = "idle" /\ pcInput' = "write"

\* the output callback of an OutputStep finds the input's first sample time
\* set and records the output's
SynchronizingStep ==
    OutputStep /\ mFirstOutputSampleTime < 0 /\ mFirstOutputSampleTime' >= 0

\* the span [t, t+n) lies inside the bounds the ring buffer publishes
SpanInBounds(rb, t, n) == rb.written /\ rb.startTime <= t /\ t + n <= rb.endTime

\* C1: an output callback renders the mixer (and so runs the mixer-pull
\* callback and the ring buffer Read) only if it found both first-sample
\* times set when it began; an output callback that found either one unset
\* returns with the silence flag set and every output sample zero.
C1_SilenceUntilBothFirstTimesSet ==
    /\ lastOutput.pulled => (lastOutput.sawFirstInput >= 0 /\ lastOutput.sawFirstOutput >= 0)
    /\ (lastOutput.kind # "none" /\ (lastOutput.sawFirstInput < 0 \/ lastOutput.sawFirstOutput < 0))
           => /\ lastOutput.silenceFlag
              /\ lastOutput.data = [i \in 1..OutputBufferFrameSize |-> 0]
              /\ ~lastOutput.pulled

\* C1's case: an output callback that found both times set has rendered the
\* mixer and its pull read captured frames from the ring buffer
C1_Witness ==
    /\ lastOutput.pulled
    /\ lastOutput.sawFirstInput >= 0 /\ lastOutput.sawFirstOutput >= 0
    /\ lastPull.valid /\ lastPull.ok
    /\ lastOutput.data # [i \in 1..OutputBufferFrameSize |-> 0]

\* C2: the output callback that makes the engine synchronized changes
\* mThroughLatency by exactly mFirstOutputSampleTime - mFirstInputSampleTime
\* relative to its value before the callback, and no mixer render has
\* produced output before or in that callback: the callback itself is silent.
C2_SyncAdjustsByDelta ==
    [][SynchronizingStep =>
          /\ mThroughLatency' - mThroughLatency = mFirstOutputSampleTime' - mFirstInputSampleTime
          /\ mFirstOutputSampleTime' = outputClock
          /\ mFirstInputSampleTime' = mFirstInputSampleTime
          /\ ~audioOut /\ ~audioOut'
          /\ lastOutput'.silenceFlag
          /\ lastOutput'.data = [i \in 1..OutputBufferFrameSize |-> 0]]_vars

\* C2's case: input first seen at 0, output first seen at MaxStartTime, the
\* engine has synchronized with a delta of MaxStartTime
C2_Witness ==
    /\ lastOutput.kind = "sync"
    /\ mFirstInputSampleTime = 0
    /\ mFirstOutputSampleTime = MaxStartTime
    /\ mThroughLatency = MinimumThroughLatency + MaxStartTime

\* C3: the output callback that records mFirstOutputSampleTime and corrects
\* mThroughLatency returns silence and does not render the mixer: no mixer
\* pull happens in it, so the first mixer pull since the first-sample times
\* were unset happens in a later output callback.
C3_SyncCallbackIsSilent ==
    [][SynchronizingStep =>
          /\ lastOutput'.kind = "sync"
          /\ lastOutput'.silenceFlag
          /\ lastOutput'.data = [i \in 1..OutputBufferFrameSize |-> 0]
          /\ ~lastOutput'.pulled
          /\ lastPull' = lastPull
          /\ ~lastPull'.valid
          /\ ~audioOut']_vars

\* C3's case: the callback right after the synchronizing one rendered the mixer
C3_Witness ==
    /\ nStarts = 1
    /\ lastOutput.pulled
    /\ lastPull.valid
    /\ lastOutput.ts = mFirstOutputSampleTime + OutputBufferFrameSize


\* an OutputStep whose output callback rendered the mixer
PullStep == OutputStep /\ lastOutput'.pulled

\* a PullStep whose Read failed and whose GetTimeBounds succeeded sets
\* mThroughLatency to the requested time minus the buffer's startTime
RederivingStep ==
    /\ PullStep
    /\ ~lastPull'.ok
    /\ lastPull'.boundsOk
    /\ mThroughLatency' = outputClock - mInputRingBuffer.startTime

\* C4: the mixer-pull callback asks the ring buffer for frameCount frames
\* starting at requestedTime - mThroughLatency: the Read succeeds exactly when
\* that span lies inside the buffer's bounds and then delivers the frames
\* captured for those sample times, leaving mThroughLatency unchanged.  When
\* the Read fails the callback returns zeros with the silence flag set, and
\* sets mThroughLatency to requestedTime - startTime if GetTimeBounds
\* succeeds, leaving it unchanged if GetTimeBounds fails.
C4_MixerPullReadsAdjustedSpan ==
    [][PullStep =>
          LET requested == outputClock
              n == OutputBufferFrameSize
              adjusted == outputClock - mThroughLatency
          IN /\ lastPull'.valid
             /\ lastPull'.requested = requested
             /\ lastPull'.frames = n
             /\ lastPull'.ok = SpanInBounds(mInputRingBuffer, adjusted, n)
             /\ lastPull'.ok =>
                   /\ lastPull'.data = [i \in 1..n |-> Sample(adjusted + i - 1)]
                   /\ ~lastPull'.silenceFlag
                   /\ mThroughLatency' = mThroughLatency
             /\ ~lastPull'.ok =>
                   /\ lastPull'.data = [i \in 1..n |-> 0]
                   /\ lastPull'.silenceFlag
                   /\ IF lastPull'.boundsOk
                      THEN mThroughLatency' = requested - mInputRingBuffer.startTime
                      ELSE mThroughLatency' = mThroughLatency
             /\ lastOutput'.data = lastPull'.data]_vars

\* C4's case: a mixer pull whose Read failed while the buffer held frames,
\* and which moved mThroughLatency to requested - startTime
C4_Witness ==
    /\ lastPull.valid /\ ~lastPull.ok /\ lastPull.boundsOk
    /\ mInputRingBuffer.written
    /\ lastOutput.pulled /\ lastOutput.ts = lastPull.requested
    /\ lastPull.throughLatency = lastPull.requested - lastPull.startTime
    /\ lastPull.throughLatency # lastPull.latencyBefore
    /\ mThroughLatency = lastPull.throughLatency

\* C5 as stated: the first capture callback delivered since the input
\* direction was started writes mFirstInputSampleTime, with its own device
\* sample time, and no later capture callback changes it.
C5_FirstInputWrittenOncePerRun ==
    [][CaptureBeginStep =>
          IF ~lastCapture.valid
          THEN mFirstInputSampleTime < 0 /\ mFirstInputSampleTime' = inputClock
          ELSE mFirstInputSampleTime' = mFirstInputSampleTime]_vars

\* C6 as stated: the first output callback delivered since the output
\* direction was started that observes mFirstInputSampleTime set writes
\* mFirstOutputSampleTime, no later one changes it, and an output callback
\* that observes mFirstInputSampleTime unset leaves mFirstOutputSampleTime
\* and mThroughLatency unchanged.
C6_FirstOutputWrittenOncePerRun ==
    [][OutputStep =>
          IF mFirstInputSampleTime < 0
          THEN /\ mFirstOutputSampleTime' = mFirstOutputSampleTime
               /\ mThroughLatency' = mThroughLatency
          ELSE IF lastOutput.kind \in {"none", "silence"}
               THEN mFirstOutputSampleTime < 0 /\ mFirstOutputSampleTime' = outputClock
               ELSE mFirstOutputSampleTime' = mFirstOutputSampleTime]_vars

ReadInBounds ==
    /\ ringResult.op = "Read"
    /\ SpanInBounds(mInputRingBuffer, ringResult.t, ringResult.n)

ReadOutOfBounds ==
    /\ ringResult.op = "Read"
    /\ ~SpanInBounds(mInputRingBuffer, ringResult.t, ringResult.n)

\* C8: round trip: a Read of a span [t, t+n) that lies inside the current
\* bounds [startTime, endTime) succeeds and returns, frame by frame, the
\* samples written for those absolute sample times.
C8_ReadRoundTrip ==
    ReadInBounds =>
        /\ ringResult.ok
        /\ ringDest = [i \in 1..ringResult.n |-> Sample(ringResult.t + i - 1)]

\* C8's case: after writes that overran the capacity, a successful Read of a
\* span that wraps around the end of the store
C8_Witness ==
    /\ ReadInBounds
    /\ ringResult.ok
    /\ mInputRingBuffer.startTime > 0
    /\ ringResult.n >= 2
    /\ (ringResult.t + ringResult.n - 1) % RingTestCapacity < ringResult.t % RingTestCapacity
    /\ ringDest = [i \in 1..ringResult.n |-> Sample(ringResult.t + i - 1)]

\* C9: a Read whose span [t, t+n) is not fully contained in
\* [startTime, endTime) fails and leaves every sample of the destination
\* buffer as it was before the call.
C9_FailedReadLeavesDestination ==
    ReadOutOfBounds =>
        /\ ~ringResult.ok
        /\ ringDest = [i \in 1..ringResult.n |-> Garbage]

\* C9's case: a failed Read of a span that begins inside the bounds and
\* ends past endTime
C9_Witness ==
    /\ ReadOutOfBounds
    /\ ~ringResult.ok
    /\ mInputRingBuffer.written
    /\ mInputRingBuffer.startTime <= ringResult.t
    /\ ringResult.t < mInputRingBuffer.endTime
    /\ ringResult.t + ringResult.n > mInputRingBuffer.endTime
    /\ ringDest = [i \in 1..ringResult.n |-> Garbage]

\* C10: across every ring buffer call startTime never decreases, and
\* endTime - startTime <= capacity in every state, also when the frames
\* written exceed the capacity.
C10_BoundsMonotoneWithinCapacity ==
    [][/\ mInputRingBuffer'.startTime >= mInputRingBuffer.startTime
       /\ mInputRingBuffer'.endTime - mInputRingBuffer'.startTime <= mInputRingBuffer'.capacity
       /\ mInputRingBuffer'.endTime >= mInputRingBuffer'.startTime
       /\ mInputRingBuffer'.capacity = mInputRingBuffer.capacity]_vars

\* C10's case: a contiguous Write overran the capacity and advanced startTime
C10_Witness ==
    /\ ringResult.op = "Write"
    /\ ringResult.ok
    /\ mInputRingBuffer.startTime > 0
    /\ ringResult.t > mInputRingBuffer.startTime
    /\ mInputRingBuffer.endTime = ringResult.t + ringResult.n
    /\ mInputRingBuffer.endTime - mInputRingBuffer.startTime = RingTestCapacity


\* C12: discontinuity: once a Write has been accepted across a gap (its span
\* begins after endTime), a Read of any span that lay inside the bounds
\* published before that Write fails: the frames before the gap are
\* discarded.  (Capacity 100: Write [0,100), Write [150,200), Read [0,50)
\* fails.)  Read is a function of the buffer and the span, so the outcome
\* is the same on every execution of the same writes.
C12_ReadBeforeGapFails ==
    (/\ ringResult.op = "Read"
     /\ ringGap.valid
     /\ ringGap.startTime <= ringResult.t
     /\ ringResult.t + ringResult.n <= ringGap.endTime)
        => /\ ~ringResult.ok
           /\ ringDest = [i \in 1..ringResult.n |-> Garbage]

\* C12's case: the buffer was filled to capacity from time 0, a Write across
\* a gap followed, and a Read of a span starting at 0 failed
C12_Witness ==
    /\ ringResult.op = "Read"
    /\ ~ringResult.ok
    /\ ringGap.valid
    /\ ringGap.startTime = 0
    /\ ringGap.endTime = RingTestCapacity
    /\ ringResult.t = 0
    /\ ringResult.t + ringResult.n <= ringGap.endTime
    /\ mInputRingBuffer.startTime > ringGap.endTime

\* the ring buffer has accepted a Write, a mixer pull's Read fails
ReadMissAfterWriteStep == PullStep /\ mInputRingBuffer.written /\ ~lastPull'.ok

\* C13: once a Write has completed GetTimeBounds succeeds, so a mixer pull
\* whose Read misses after the first capture Write always re-derives
\* mThroughLatency (to the requested time minus startTime).
C13_ReadMissAfterWriteRederives ==
    [][ReadMissAfterWriteStep =>
          /\ lastPull'.boundsOk
          /\ lastPull'.startTime = mInputRingBuffer.startTime
          /\ mThroughLatency' = outputClock - mInputRingBuffer.startTime]_vars

\* C13's case: after a capture Write, a mixer pull missed and re-derived
\* mThroughLatency from the bounds
C13_Witness ==
    /\ mInputRingBuffer.written
    /\ mInputRingBuffer.endTime > mInputRingBuffer.startTime
    /\ lastCapture.valid /\ lastCapture.wrote /\ lastCapture.ok
    /\ lastPull.valid /\ ~lastPull.ok /\ lastPull.boundsOk
    /\ mThroughLatency = lastPull.requested - mInputRingBuffer.startTime


(***************************************************************************)
(* Properties of the slice pool (SpecPool).                                *)
(***************************************************************************)
\* the steps that end PlayAt's scan: no slot found, or a slot claimed
ScanFailsStep == play[ControlThread].pc = "scan" /\ play'[ControlThread].pc = "idle"
ScanClaimsStep == play[ControlThread].pc = "scan" /\ play'[ControlThread].pc = "clear"

\* a scan in progress that began with an available slot still has one ahead
AvailableAhead ==
    (play[ControlThread].pc = "scan" /\ play[ControlThread].sawAvailable)
        => \E i \in SliceIndexes : /\ i >= play[ControlThread].index
                                   /\ mScheduledAudioSlices[i].mAvailable

\* C14: slot acquisition in PlayAt fails if and only if every slot is in
\* flight (its availability flag is false) at the time of the scan: a scan
\* fails only if no slot was available when it began, a scan that began with
\* an available slot keeps one ahead of it and so cannot fail, and the slot
\* a scan claims is available.  Hence N acquisitions without a completion
\* succeed, the next fails, and the one after a completion succeeds.
C14_AcquireFailsIffAllInFlight ==
    [][/\ AvailableAhead
       /\ ScanFailsStep => /\ ~play[ControlThread].sawAvailable
                           /\ lastPlay' = "noSlices"
       /\ ScanClaimsStep => mScheduledAudioSlices[play[ControlThread].index].mAvailable]_vars

\* C14's case: kScheduledAudioSliceCount acquisitions filled the pool, the
\* next PlayAt found no slot (its buffer was destroyed), one slice was
\* completed and the PlayAt after it was scheduled
C14_Witness ==
    /\ nPlays = kScheduledAudioSliceCount + 2
    /\ (kScheduledAudioSliceCount + 1) \in freedBuffers
    /\ lastPlay = "scheduled"
    /\ scheduledSlices = SliceIndexes
    /\ \E i \in SliceIndexes :
           mScheduledAudioSlices[i].mBufferList = kScheduledAudioSliceCount + 2

\* a step of PlayAt's scan, and the one taken when the scan has run past the
\* last slot without finding an available one
ScanStep == play[ControlThread].pc = "scan" /\ play' # play
NoSlotStep == ScanStep /\ play[ControlThread].index >= kScheduledAudioSliceCount

\* C15: when no slot is available PlayAt reports the error to its caller in
\* the same call (it ends with "No available slices": the request is not
\* queued and not dropped silently), hands nothing to the player unit, and
\* neither that step nor the scan before it changes any field of any slice.
C15_NoSlotFailsWithoutEffect ==
    [][/\ ScanStep => UNCHANGED <<mScheduledAudioSlices, scheduledSlices, playerStarted>>
       /\ NoSlotStep => /\ lastPlay' = "noSlices"
                        /\ play'[ControlThread] = IdlePlay]_vars

\* C15's case: with every slot in flight a PlayAt failed; each slice still
\* holds the buffer it was scheduled with and only the failed call's buffer
\* has been destroyed
C15_Witness ==
    /\ lastPlay = "noSlices"
    /\ play[ControlThread] = IdlePlay
    /\ nPlays = kScheduledAudioSliceCount + 1
    /\ freedBuffers = {nPlays}
    /\ scheduledSlices = SliceIndexes
    /\ \A i \in SliceIndexes : /\ ~mScheduledAudioSlices[i].mAvailable
                                /\ mScheduledAudioSlices[i].mBufferList = i + 1

CompletionStep(i) == i \in scheduledSlices /\ i \notin scheduledSlices'
CallbackStep(i) == CompletionStep(i) /\ outputRunning'

\* C17: the slice completion callback changes only the availability flag of
\* the completed slice, to true: that slice's buffer, time stamp, frame
\* count and completion procedure, every other slice, the ring buffer, the
\* first-sample times and mThroughLatency are unchanged and no buffer is
\* freed.
C17_CompletionSetsOnlyAvailability ==
    [][\A i \in SliceIndexes :
          /\ CompletionStep(i) =>
                 /\ mScheduledAudioSlices'[i] = [mScheduledAudioSlices[i] EXCEPT !.mAvailable = TRUE]
                 /\ freedBuffers' = freedBuffers
          /\ CallbackStep(i) =>
                 /\ \A j \in SliceIndexes \ {i} :
                        mScheduledAudioSlices'[j] = mScheduledAudioSlices[j]
                 /\ UNCHANGED <<mInputRingBuffer, mFirstInputSampleTime,
                                mFirstOutputSampleTime, mThroughLatency>>]_vars

\* C17's case: the running player unit has completed a slice scheduled at
\* time stamp 1; it is available with its buffer and fields as scheduled,
\* nothing has been freed, and another slice is still in flight
C17_Witness ==
    /\ outputRunning /\ playerStarted
    /\ freedBuffers = {}
    /\ \E i \in SliceIndexes \ scheduledSlices :
           /\ mScheduledAudioSlices[i].mAvailable
           /\ mScheduledAudioSlices[i].mBufferList # 0
           /\ mScheduledAudioSlices[i].mTimeStamp = 1
           /\ mScheduledAudioSlices[i].mCompletionProc
           /\ mScheduledAudioSlices[i].mNumberFrames =
                  FrameLength(mScheduledAudioSlices[i].mBufferList)
    /\ scheduledSlices # {}


(***************************************************************************)
(* Properties of Start and Stop.                                           *)
(***************************************************************************)
\* C18: after a Stop call on a running engine returns without error,
\* neither direction is running and mFirstInputSampleTime and
\* mFirstOutputSampleTime are both -1.
C18_StopLeavesEngineHaltedAndUnset ==
    [][Stop("none") => /\ ~inputRunning' /\ ~outputRunning'
                       /\ mFirstInputSampleTime' = Unset
                       /\ mFirstOutputSampleTime' = Unset]_vars

\* C18's case: in the engine's only run both first-sample times were set
\* (the synchronizing callback ran), then Stop halted both directions and
\* reset them
C18_Witness ==
    /\ nStarts = 1
    /\ nDeltaAdjust = 1
    /\ ~inputRunning /\ ~outputRunning
    /\ mFirstInputSampleTime = Unset
    /\ mFirstOutputSampleTime = Unset

\* C19: Start and Stop are idempotent: Start (or StartAt) called while the
\* engine is running, and Stop called while it is not, change nothing: the
\* running status of either direction, the first-sample times,
\* mThroughLatency, the ring buffer and the slice pool are as before, so
\* Start;Start leaves the state Start left and Stop;Stop the state Stop left.
C19_StartStopIdempotent ==
    [][(StartWhileRunning \/ StopWhileStopped) =>
          UNCHANGED <<inputRunning, outputRunning, mFirstInputSampleTime,
                      mFirstOutputSampleTime, mThroughLatency, mInputRingBuffer,
                      mScheduledAudioSlices, scheduledSlices, playerStarted>>]_vars

\* C19's case: the engine is running with both first-sample times set,
\* mThroughLatency adjusted and captured audio in the ring buffer; a Start
\* called in this state returns at once and leaves this very state
C19_Witness ==
    /\ inputRunning /\ outputRunning
    /\ mFirstInputSampleTime # Unset
    /\ mFirstOutputSampleTime # Unset
    /\ nDeltaAdjust = 1
    /\ mThroughLatency # MinimumThroughLatency
    /\ mInputRingBuffer.written
    /\ ENABLED StartWhileRunning

\* C20: a Stop/Start cycle leaves the slice pool usable without
\* reallocation: every slot that is in flight (not available) when Stop is
\* called is available when Stop has returned, and so can be acquired in
\* the following run; no slot is lost for good across Stop/Start.
C20_StopReturnsEverySlot ==
    [][Stop("none") =>
          \A i \in SliceIndexes :
              ~mScheduledAudioSlices[i].mAvailable => mScheduledAudioSlices'[i].mAvailable]_vars


(***************************************************************************)
(* Properties of the callbacks' error handling.                            *)
(***************************************************************************)
\* the capture callback in progress makes its ring buffer Write and returns
CaptureWriteStep == pcInput = "write" /\ pcInput' = "idle"

\* the Write of n frames at sample time t is one the ring buffer accepts
CaptureWriteAccepted(t, n) ==
    /\ n <= mInputRingBuffer.capacity
    /\ (mInputRingBuffer.written => t >= mInputRingBuffer.startTime)

CaptureEnteredStep == pcInput = "idle" /\ lastCapture' # lastCapture /\ lastCapture'.valid

Synchronized == mFirstInputSampleTime >= 0 /\ mFirstOutputSampleTime >= 0

\* C23: if Start succeeds and the capture and the output callbacks keep
\* being invoked, without a Stop, the engine eventually is Synchronized
\* (both first-sample times set); it then stays so, and from then on every
\* output callback pulls the mixer.
C23_EventuallySynchronized ==
    /\ (inputRunning /\ outputRunning) ~> Synchronized
    /\ [][Synchronized => /\ Synchronized'
                          /\ OutputStep => /\ lastOutput'.kind = "mixer"
                                           /\ lastOutput'.pulled]_vars

\* C23's case: in the run begun by a Start that succeeded the engine has
\* synchronized and the output callback after that has pulled the mixer
C23_Witness ==
    /\ nStarts = 1 /\ inputRunning /\ outputRunning
    /\ Synchronized
    /\ nDeltaAdjust = 1
    /\ lastOutput.kind = "mixer" /\ lastOutput.pulled
    /\ lastOutput.ts > mFirstOutputSampleTime

(***************************************************************************)
(* Properties of the alternating schedule (SpecAlt).                       *)
(***************************************************************************)
\* the most recent mixer pull missed and re-derived mThroughLatency from the
\* bounds GetTimeBounds returned
PullMissRederived == lastPull.valid /\ ~lastPull.ok /\ lastPull.boundsOk

\* both devices have a cycle left on the model's timeline
CyclesLeft == inputClock < MaxTime /\ outputClock < MaxTime

\* C24: after a mixer pull whose Read missed and that re-derived
\* mThroughLatency from valid time bounds, while capture and output
\* callbacks keep alternating (the engine is not stopped and the timeline
\* has a cycle left for each) a later mixer pull's Read succeeds
C24_RederivedMissHeals ==
    (outputRunning /\ PullMissRederived /\ CyclesLeft)
        ~> ((lastPull.valid /\ lastPull.ok) \/ ~outputRunning)

C24_Witness ==
    /\ outputRunning
    /\ lastPull.valid
    /\ lastPull.ok
    /\ lastPull.latencyBefore = ResyncThroughLatency(lastPull.requested - lastPull.frames,
                                                     mInputRingBuffer.startTime)
    /\ lastPull.adjusted = mInputRingBuffer.startTime + lastPull.frames
    /\ lastOutput.data = RenderedInput(lastPull.adjusted, lastPull.frames)

\* C25: in a run synchronized with the one-time correction
\* (mThroughLatency = MinimumThroughLatency + mFirstOutputSampleTime -
\* mFirstInputSampleTime), the capture callback first and the two callbacks
\* then in strict alternation, no mixer pull made after the engine became
\* synchronized has a failed Read
C25_NoMissAfterCorrection ==
    (Synchronized /\ nDeltaAdjust = 1 /\ lastPull.valid) => lastPull.ok

(***************************************************************************)
(* Properties of the synchronizer across runs.                             *)
(***************************************************************************)
\* C26: in every run, when the engine becomes synchronized mThroughLatency
\* equals MinimumThroughLatency + (mFirstOutputSampleTime -
\* mFirstInputSampleTime) of that run: corrections and re-derivations of
\* earlier runs do not carry over a Stop/Start cycle
C26_SyncLatencyIsPerRun ==
    [][SynchronizingStep =>
          mThroughLatency' = MinimumThroughLatency
                             + (mFirstOutputSampleTime' - mFirstInputSampleTime')]_vars

\* a step in which Start starts hardware: the engine goes from not running
\* to running
HardwareStartStep == ~IsRunning /\ IsRunning'

\* C27: every run begins unsynchronized: whenever Start starts the hardware
\* directions, both first-sample times are unset, also when a preceding
\* Stop raised an error partway through
C27_RunBeginsUnsynchronized ==
    [][HardwareStartStep =>
          /\ FirstSampleTimeUnset(mFirstInputSampleTime')
          /\ FirstSampleTimeUnset(mFirstOutputSampleTime')]_vars

(***************************************************************************)
(* Properties of Start after a failed Start.                               *)
(***************************************************************************)
\* a step in which Start() starts both units and returns
StartBothStep == \E inT \in StartTimes, outT \in StartTimes : Start(inT, outT, "none")

\* C28: whenever Start returns without raising an error, both the input
\* direction and the output direction are running, also for a Start issued
\* after an earlier Start failed between starting the input unit and
\* starting the output unit.  Start returns without error when it starts
\* both units, and when it finds the engine running and returns at once
\* (a step that changes nothing, stated on the states in which it can be
\* taken).
C28_StartLeavesBothRunning ==
    /\ [][StartBothStep => inputRunning' /\ outputRunning']_vars
    /\ [](ENABLED StartWhileRunning => inputRunning /\ outputRunning)

(***************************************************************************)
(* Properties of the slices' buffers (SpecPool).                           *)
(***************************************************************************)
\* slice i is in flight: handed to the player unit, whose completion
\* notification for it has not come yet
InFlight(i) == i \in scheduledSlices

\* C29: a slice's audio buffer is freed or replaced (Clear and the field
\* writes in PlayAt) only while the slice is not in flight, under any
\* interleaving of PlayAt with completion callbacks: a step that changes
\* mBufferList of a slice finds the slice outside the player unit's
\* schedule, and the buffer of a slice in flight is never a freed one
C29_BufferChangesOnlyOutOfFlight ==
    /\ [][\A i \in SliceIndexes :
              mScheduledAudioSlices'[i].mBufferList # mScheduledAudioSlices[i].mBufferList
                  => ~InFlight(i)]_vars
    /\ [](\A i \in SliceIndexes :
              InFlight(i) => /\ mScheduledAudioSlices[i].mBufferList # 0
                             /\ mScheduledAudioSlices[i].mBufferList \notin freedBuffers)

\* a third PlayAt has cleared slot 0, freeing the buffer of the first
\* PlayAt, while the slice of the second is in flight
C29_Witness ==
    /\ play[ControlThread].pc = "fill"
    /\ play[ControlThread].index = 0
    /\ play[ControlThread].abl = 3
    /\ mScheduledAudioSlices[0].mBufferList = 0
    /\ freedBuffers = {1}
    /\ scheduledSlices = {1}
    /\ mScheduledAudioSlices[1].mBufferList = 2

\* C30: if PlayAt fails because the player unit rejects the slice handed to
\* it, the slot claimed for that slice is available again when PlayAt
\* returns, so the failed PlayAt leaves the number of available slots
\* unchanged
C30_RejectedSliceReleased ==
    [][PlayAtSchedule(ControlThread, FALSE) =>
          mScheduledAudioSlices'[play[ControlThread].index].mAvailable]_vars

(***************************************************************************)
(* Properties of the hand-off of a slice (SpecPool).                       *)
(***************************************************************************)
\* a step in which slice i is handed to the player unit
HandOffStep(i) == ~InFlight(i) /\ i \in scheduledSlices'

\* C31: in PlayAt a slice is handed to the player unit only after its time
\* stamp, completion procedure, frame count and buffer are all set and its
\* availability flag is false, and between the hand-off and the slice's
\* completion notification no field of the slice is written: the only
\* change to a slice in flight is the one its completion makes
C31_HandOffAfterFieldsThenReadOnly ==
    [][\A i \in SliceIndexes :
          /\ HandOffStep(i) =>
                 /\ i = play[ControlThread].index
                 /\ mScheduledAudioSlices[i] =
                        [mAvailable |-> FALSE,
                         mBufferList |-> nPlays,
                         mNumberFrames |-> nPlays + 1,
                         mTimeStamp |-> play[ControlThread].timeStamp,
                         mCompletionProc |-> TRUE]
                 /\ mScheduledAudioSlices'[i] = mScheduledAudioSlices[i]
          /\ (InFlight(i) /\ mScheduledAudioSlices'[i] # mScheduledAudioSlices[i]) =>
                 CompletionStep(i)]_vars

\* C31's case: the slice of the first PlayAt is in flight with the fields
\* it was handed over with, while a second PlayAt, for time stamp 0, has
\* written the fields of another slot
C31_Witness ==
    /\ scheduledSlices = {0}
    /\ mScheduledAudioSlices[0] = [mAvailable |-> FALSE, mBufferList |-> 1,
                                   mNumberFrames |-> 2, mTimeStamp |-> 1,
                                   mCompletionProc |-> TRUE]
    /\ play[ControlThread].pc = "publish"
    /\ play[ControlThread].index = 1
    /\ mScheduledAudioSlices[1].mBufferList = 2
    /\ mScheduledAudioSlices[1].mAvailable

(***************************************************************************)
(* Properties of concurrent PlayAt calls (SpecConcurrentPlay).             *)
(***************************************************************************)
\* the PlayAt call of thread th has left its scan with a slot
Claimed(th) == play[th].pc \in {"clear", "fill", "publish", "schedule", "start"}

\* C32: slot acquisition is an atomic read-modify step on the availability
\* flag: two PlayAt calls running concurrently on different threads never
\* claim the same slot, so a slot claimed by one caller is never cleared or
\* overwritten by the other
C32_ConcurrentPlaysClaimDistinctSlots ==
    \A th1 \in PlayThreads, th2 \in PlayThreads :
        (th1 # th2 /\ Claimed(th1) /\ Claimed(th2)) => play[th1].index # play[th2].index

(***************************************************************************)
(* Properties of the accesses to shared state.                             *)
(***************************************************************************)
\* C33: after construction the ring buffer is written only by the capture
\* callback, and read (Read and GetTimeBounds, both made by the mixer-pull
\* callback) only in an output callback that renders the mixer: no Start
\* or Stop and no silent or synchronizing output callback changes it or
\* pulls from it
C33_RingBufferOneWriterOneReader ==
    [][/\ mInputRingBuffer' # mInputRingBuffer => CaptureWriteStep
       /\ (lastPull' # lastPull /\ lastPull'.valid) =>
              /\ OutputStep
              /\ lastOutput'.kind = "mixer"
              /\ lastPull'.requested = outputClock]_vars

\* C33's case: in a second run the capture callback has written and a
\* mixer pull has read
C33_Witness ==
    /\ nStarts = 2
    /\ lastCapture.valid /\ lastCapture.wrote /\ lastCapture.ok
    /\ mInputRingBuffer.written
    /\ lastOutput.kind = "mixer"
    /\ lastPull.valid /\ lastPull.ok

\* a step in which Stop(), having halted both directions, resets the
\* first-sample times
ControlResetStep ==
    /\ IsRunning
    /\ ~inputRunning' /\ ~outputRunning'
    /\ mFirstInputSampleTime' = Unset
    /\ mFirstOutputSampleTime' = Unset

\* C34: single writer per field: mFirstInputSampleTime is written only by
\* the capture thread, mFirstOutputSampleTime and mThroughLatency only by
\* the output thread; the control thread writes the first-sample times only
\* in Stop after both directions have been halted (and mThroughLatency not
\* at all after initialization)
C34_SingleWriterPerField ==
    [][/\ mFirstInputSampleTime' # mFirstInputSampleTime =>
              \/ CaptureBeginStep /\ inputRunning /\ mFirstOutputSampleTime' = mFirstOutputSampleTime
              \/ ControlResetStep
       /\ mFirstOutputSampleTime' # mFirstOutputSampleTime =>
              \/ OutputStep /\ mFirstInputSampleTime' = mFirstInputSampleTime
              \/ ControlResetStep
       /\ mThroughLatency' # mThroughLatency => OutputStep]_vars

\* C34's case: a run in which the capture thread, the output thread (the
\* correction and a re-derivation) and then Stop have written
C34_Witness ==
    /\ nStarts = 1
    /\ ~IsRunning
    /\ mFirstInputSampleTime = Unset /\ mFirstOutputSampleTime = Unset
    /\ nDeltaAdjust = 1
    /\ mThroughLatency < MinimumThroughLatency - 1

(***************************************************************************)
(* Properties of the ring buffer across runs (SpecRuns).                   *)
(***************************************************************************)
\* no Write of the current run has been accepted: no capture callback has
\* been delivered since the input direction was started, or the run's
\* first one has not made its Write yet or had it rejected
NoWriteAcceptedThisRun ==
    \/ ~lastCapture.valid
    \/ lastCapture.setFirst /\ ~(lastCapture.wrote /\ lastCapture.ok)

\* C35: after a Stop followed by a Start, no successful mixer-pull Read
\* returns frames that were written to the ring buffer before that Stop:
\* a pull of a later run whose Read succeeds reads frames a Write of that
\* run has stored
C35_NoReadOfPreviousRun ==
    (nStarts >= 2 /\ lastPull.valid /\ lastPull.ok) => ~NoWriteAcceptedThisRun

(***************************************************************************)
(* Equivalence of the two revisions of the correction (SpecCorrection).    *)
(***************************************************************************)
\* C36: for all values of mThroughLatency and of the two first-sample
\* times, "mThroughLatency += (firstOutput - firstInput)" and
\* "mThroughLatency -= (firstInput - firstOutput)" leave the same
\* mThroughLatency, and so the same adjusted read position in a later
\* mixer pull
C36_CorrectionRevisionsAgree ==
    /\ correction.pc \in {"corrected", "pulled"} => correction.current = correction.older
    /\ correction.pc = "pulled" => correction.adjustedCurrent = correction.adjustedOlder

\* C36's case: the difference of the first-sample times (9) lies halfway
\* between two representable values, so both revisions round it, and the
\* pull's position is rounded again
C36_Witness ==
    /\ correction.pc = "pulled"
    /\ correction.firstOutput - correction.firstInput = Pow2(FloatPrecision) + 1
    /\ correction.current # correction.latency + Pow2(FloatPrecision) + 1
    /\ correction.latency > 0
    /\ correction.requested = MaxFloat

(***************************************************************************)
(* Properties of the buffers' allocation.                                  *)
(***************************************************************************)
\* C37: the ring buffer and the capture frame buffer are allocated once,
\* during construction, the ring buffer with 20 times the device buffer
\* frame size; no Start, Stop or callback reallocates or resizes them: the
\* ring buffer's capacity and store keep their size, and every capture
\* callback renders the device buffer frame size into the frame buffer
C37_BuffersKeepTheirAllocation ==
    /\ mInputRingBuffer.capacity = 20 * InputBufferFrameSize
    /\ DOMAIN mInputRingBuffer.store = 0..(20 * InputBufferFrameSize - 1)
    /\ lastCapture.valid => lastCapture.frames = InputBufferFrameSize

\* C37's case: a second run, after a Stop, in which two capture callbacks
\* have written and a mixer pull has read
C37_Witness ==
    /\ nStarts = 2
    /\ lastCapture.valid /\ lastCapture.wrote /\ lastCapture.ok /\ ~lastCapture.setFirst
    /\ mInputRingBuffer.endTime - mInputRingBuffer.startTime >= 2 * InputBufferFrameSize
    /\ lastPull.valid

(***************************************************************************)
(* Properties of the order of the scan (SpecPool).                         *)
(***************************************************************************)
\* a step in which PlayAt begins its scan, and one in which the scan moves
\* on to the next slot
ScanBeginStep == play[ControlThread].pc = "idle" /\ play'[ControlThread].pc = "scan"
ScanAdvanceStep ==
    /\ play[ControlThread].pc = "scan"
    /\ play'[ControlThread].pc = "scan"
    /\ play'[ControlThread].index # play[ControlThread].index

\* a step of the PlayAt call in progress
PlayAtStep == play[ControlThread].pc # "idle" /\ play' # play

\* C38: PlayAt claims the lowest-indexed slot whose availability flag is
\* true at the time of its scan, and modifies no other slot: the scan
\* begins at slot 0, moves on by one slot only past a slot whose flag it
\* finds false, claims the first slot whose flag it finds true, and every
\* write PlayAt makes to the pool is to the slot it claimed
C38_ClaimsFirstAvailableSlot ==
    [][/\ ScanBeginStep => play'[ControlThread].index = 0
       /\ ScanAdvanceStep =>
              /\ ~mScheduledAudioSlices[play[ControlThread].index].mAvailable
              /\ play'[ControlThread].index = play[ControlThread].index + 1
       /\ ScanClaimsStep =>
              /\ mScheduledAudioSlices[play[ControlThread].index].mAvailable
              /\ play'[ControlThread].index = play[ControlThread].index
       /\ PlayAtStep =>
              \A j \in SliceIndexes :
                  mScheduledAudioSlices'[j] # mScheduledAudioSlices[j] =>
                      /\ Claimed(ControlThread)
                      /\ j = play[ControlThread].index]_vars

\* C38's case: with slot 0 in flight, PlayAt has passed over it, claimed
\* slot 1 and written its fields; slot 0 is as it was scheduled
C38_Witness ==
    /\ scheduledSlices = {0}
    /\ ~mScheduledAudioSlices[0].mAvailable
    /\ mScheduledAudioSlices[0].mBufferList = 1
    /\ play[ControlThread].pc = "schedule"
    /\ play[ControlThread].index = 1
    /\ mScheduledAudioSlices[1].mBufferList = 2
    /\ ~mScheduledAudioSlices[1].mAvailable

(***************************************************************************)
(* The through latency after construction (Spec).                          *)
(***************************************************************************)
\* C39: before the first Start, mThroughLatency is the input device's
\* safety offset plus its buffer frame size, plus the output device's
\* safety offset plus its buffer frame size; it keeps that value until an
\* output callback applies the first correction
C39_InitialThroughLatency ==
    /\ nStarts = 0 => nDeltaAdjust = 0
    /\ nDeltaAdjust = 0 =>
           mThroughLatency = (InputSafetyOffset + InputBufferFrameSize)
                                 + (OutputSafetyOffset + OutputBufferFrameSize)

\* C39's case: the engine as constructed, never started, with both safety
\* offsets counted in the latency
C39_Witness ==
    /\ nStarts = 0
    /\ ~IsRunning
    /\ FirstSampleTimeUnset(mFirstInputSampleTime)
    /\ FirstSampleTimeUnset(mFirstOutputSampleTime)
    /\ mThroughLatency - InputBufferFrameSize - OutputBufferFrameSize
           = InputSafetyOffset + OutputSafetyOffset
    /\ InputSafetyOffset + OutputSafetyOffset > 0

=============================================================================
